---- MODULE Spec2Model ----
(***************************************************************************)
(* ACA HHS-HCC risk score engine (garthmortensen/prism).                   *)
(*                                                                         *)
(* Modelled from ra_calculators/aca_risk_score_calculator (models.py,      *)
(* calculator.py, table_loader.py) and                                     *)
(* ra_calculators/aca_risk_calculator/hierarchies.py.                      *)
(*                                                                         *)
(* Representation.  A Python str whose characters the code inspects (a     *)
(* diagnosis code, a CC/HCC/RXC identifier, an NDC, a gender, a model      *)
(* year) is the sequence of its characters: "19.0" is <<"1","9",".","0">>. *)
(* A coefficient-table variable name is only ever built by an f-string and *)
(* used as a dictionary key; it is the sequence of the f-string's pieces,  *)
(* the literal piece kept whole and the interpolated value character by    *)
(* character: f"HHS_HCC{'019'}" is <<"HHS_HCC","0","1","9">>.  A float     *)
(* coefficient is an integer number of thousandths.                        *)
(***************************************************************************)
EXTENDS Integers, Sequences, FiniteSets, TLC

VARIABLES
    args,        \* Optional: keyword arguments of the last MemberInput(...) call
    member,      \* Optional: what that call did: [raised |-> ...] or the MemberInput built
    call,        \* Optional: arguments of the last score() call
    out,         \* Optional: what that call did: [raised |-> ...] or a ScoreOutput
    hierarchies, \* hierarchy table under test: rows [dominant, superseded], in dict order
    cc_set,      \* input set handed to hierarchy resolution
    hcc_set,     \* Optional: what apply_hierarchies returned for cc_set
    final_rxcs,  \* Optional: what _apply_rxc_hierarchies returned for cc_set
    hcc_again,   \* Optional: what apply_hierarchies returned for hcc_set
    coefficients, \* self._coefficients of the calculator
    lookup,      \* Optional: the last _get_coefficient call: its arguments and result
    codes,       \* list of diagnosis or NDC codes handed to a mapping step
    mapped,      \* Optional: the mapping step called on codes and the set it returned
    members,     \* list of MemberInput handed to score_batch
    results,     \* Optional: what score_batch did: [raised |-> ...] or [returned |-> list]
    _CACHE,      \* table_loader._CACHE: cache key -> the table loaded under it
    reads,       \* number of table files read so far
    loaded,      \* Optional: the last loader call: its arguments and what it did
    calculator,  \* Optional: what the last ACACalculator(model_year) did
    fetched,     \* rows of int_aca_risk_input handed to the conversion
    options,     \* Optional: invalid_gender and coerce_gender of the last call
    converted,   \* Optional: what rows_to_member_inputs did with fetched
    csv,         \* Optional: what score_from_duckdb_to_csv did with fetched, and the rows it wrote
    warehouse,   \* the DuckDB tables: run_registry, risk_scores and the analytics tables
    asset_run,   \* Optional: the last asset materialized: its config, run_id and what it did
    group_table, \* table_6.json / table_7.json under test: the rows of the file, in file order
    group_in,    \* input set handed to _apply_groupings
    grouped      \* Optional: the model asked for and what _apply_groupings returned for group_in

vars == <<args, member, call, out, hierarchies, cc_set, hcc_set, final_rxcs, hcc_again,
          coefficients, lookup, codes, mapped, members, results,
          _CACHE, reads, loaded, calculator,
          fetched, options, converted, csv,
          warehouse, asset_run,
          group_table, group_in, grouped>>
cacheVars == <<_CACHE, reads, loaded, calculator>>
rowVars == <<fetched, options, converted, csv>>
runVars == <<warehouse, asset_run>>
groupVars == <<group_table, group_in, grouped>>
lookupVars == <<coefficients, lookup>>
mapVars == <<codes, mapped>>
batchVars == <<members, results>>
scoreVars == <<args, member, call, out>>
hierVars == <<hierarchies, cc_set, hcc_set, final_rxcs, hcc_again>>

\* Optional[T]: None is the empty sequence, a value x is <<x>>
None == <<>>

Some(x) == <<x>>

(***************************************************************************)
(* Python str methods the engine uses, on character sequences.             *)
(***************************************************************************)
Digits == {"0", "1", "2", "3", "4", "5", "6", "7", "8", "9"}

Lowers == <<"a", "b", "c", "d", "e", "f", "g", "h", "i", "j", "k", "l", "m",
            "n", "o", "p", "q", "r", "s", "t", "u", "v", "w", "x", "y", "z">>

Uppers == <<"A", "B", "C", "D", "E", "F", "G", "H", "I", "J", "K", "L", "M",
            "N", "O", "P", "Q", "R", "S", "T", "U", "V", "W", "X", "Y", "Z">>

Whitespace == {" ", "\t", "\n", "\r"}

Range(s) == {s[i] : i \in DOMAIN s}

\* str.isdigit(): non-empty and every character a digit
isdigit(s) == Len(s) > 0 /\ \A i \in DOMAIN s : s[i] \in Digits

\* one character of str.upper()
UpperChar(c) ==
    IF \E i \in DOMAIN Lowers : Lowers[i] = c
    THEN Uppers[CHOOSE i \in DOMAIN Lowers : Lowers[i] = c]
    ELSE c

upper(s) == [i \in DOMAIN s |-> UpperChar(s[i])]

\* str.replace(old, new) for a one-character old; new is a string (possibly empty)
RECURSIVE replace(_, _, _)
replace(s, old, new) ==
    IF s = <<>> THEN <<>>
    ELSE (IF Head(s) = old THEN new ELSE <<Head(s)>>) \o replace(Tail(s), old, new)

RECURSIVE lstrip(_)
lstrip(s) == IF s # <<>> /\ Head(s) \in Whitespace THEN lstrip(Tail(s)) ELSE s

RECURSIVE rstrip(_)
rstrip(s) ==
    IF s # <<>> /\ s[Len(s)] \in Whitespace THEN rstrip(SubSeq(s, 1, Len(s) - 1)) ELSE s

strip(s) == rstrip(lstrip(s))

Zeros(n) == [i \in 1..n |-> "0"]

\* str.zfill(width): left-pad with zeros, after a leading sign if there is one
zfill(s, width) ==
    IF Len(s) >= width THEN s
    ELSE IF s # <<>> /\ Head(s) \in {"+", "-"}
         THEN <<Head(s)>> \o Zeros(width - Len(s)) \o Tail(s)
         ELSE Zeros(width - Len(s)) \o s

\* s[:n]
Prefix(s, n) == SubSeq(s, 1, IF n < Len(s) THEN n ELSE Len(s))

endswith(s, suffix) ==
    Len(s) >= Len(suffix) /\ SubSeq(s, Len(s) - Len(suffix) + 1, Len(s)) = suffix

\* str.split(sep) for a one-character separator
RECURSIVE split(_, _)
split(s, sep) ==
    IF \A i \in DOMAIN s : s[i] # sep THEN <<s>>
    ELSE LET k == CHOOSE i \in DOMAIN s : s[i] = sep /\ \A j \in 1..(i - 1) : s[j] # sep
         IN  <<SubSeq(s, 1, k - 1)>> \o split(SubSeq(s, k + 1, Len(s)), sep)

DigitValue(c) == CHOOSE n \in 0..9 : <<"0", "1", "2", "3", "4", "5", "6", "7", "8", "9">>[n + 1] = c

\* int(s) for a string of decimal digits
RECURSIVE int(_)
int(s) == IF s = <<>> THEN 0 ELSE 10 * int(SubSeq(s, 1, Len(s) - 1)) + DigitValue(s[Len(s)])

\* every ordering of a finite set: the orders in which a Python set may be iterated
RECURSIVE Orderings(_)
Orderings(S) ==
    IF S = {} THEN {<<>>}
    ELSE UNION {{<<x>> \o t : t \in Orderings(S \ {x})} : x \in S}

\* the characters the tables and inputs use, in code-point order
CodePoints == <<"\t", "\n", "\r", " ", "+", "-", ".">> \o
              <<"0", "1", "2", "3", "4", "5", "6", "7", "8", "9">> \o Uppers \o
              <<"_">> \o Lowers

ord(c) == CHOOSE i \in DOMAIN CodePoints : CodePoints[i] = c

\* a < b for two str, as Python compares them
RECURSIVE StrLess(_, _)
StrLess(a, b) ==
    IF b = <<>> THEN FALSE
    ELSE IF a = <<>> THEN TRUE
    ELSE IF Head(a) = Head(b) THEN StrLess(Tail(a), Tail(b))
    ELSE ord(Head(a)) < ord(Head(b))

\* sorted(S) for a set of str
sorted(S) ==
    CHOOSE o \in Orderings(S) : \A i \in 1..(Len(o) - 1) : StrLess(o[i], o[i + 1])

(***************************************************************************)
(* models.py                                                               *)
(***************************************************************************)
\* ScoreComponent.component_type: Field(..., pattern="^(demographic|hcc|rxc|hcc_group)$")
ComponentTypePattern == {"demographic", "hcc", "rxc", "hcc_group"}

\* ScoreComponent(...): built when component_type matches the pattern, a
\* validation error otherwise
ScoreComponentValid(c) == c.component_type \in ComponentTypePattern

\* MemberInput.gender: Field(pattern="^[MF]$")
GenderPattern(g) == Len(g) = 1 /\ g[1] \in {"M", "F"}

\* mutant: the lower bound ge=1 left out
EnrollmentMonthsValid_no_ge(n) == n <= 12

\* MemberInput.enrollment_months: Field(default=12, ge=1, le=12)
EnrollmentMonthsValid(n) == n >= 1 /\ n <= 12

DefaultEnrollmentMonths == 12

\* MemberInput.metal_level: Field(default="silver")
DefaultMetalLevel == <<"s", "i", "l", "v", "e", "r">>

Given(kw, field) == field \in DOMAIN kw

\* MemberInput(**kw): kw is the record of the keyword arguments given.  The
\* three fields without a default are required; gender and enrollment_months
\* are validated; the others take their defaults when not given.
MemberInput(kw) ==
    IF /\ Given(kw, "member_id") /\ Given(kw, "date_of_birth") /\ Given(kw, "gender")
       /\ GenderPattern(kw.gender)
       /\ (Given(kw, "enrollment_months") => EnrollmentMonthsValid(kw.enrollment_months))
    THEN [member_id |-> kw.member_id,
          date_of_birth |-> kw.date_of_birth,
          gender |-> kw.gender,
          metal_level |-> IF Given(kw, "metal_level") THEN kw.metal_level
                          ELSE DefaultMetalLevel,
          diagnoses |-> IF Given(kw, "diagnoses") THEN kw.diagnoses ELSE <<>>,
          ndc_codes |-> IF Given(kw, "ndc_codes") THEN kw.ndc_codes ELSE <<>>,
          enrollment_months |-> IF Given(kw, "enrollment_months")
                                THEN kw.enrollment_months
                                ELSE DefaultEnrollmentMonths]
    ELSE [raised |-> "ValidationError"]

Raised(r) == "raised" \in DOMAIN r

(***************************************************************************)
(* calculator.py: age, model and demographic variable                      *)
(***************************************************************************)
date(y, m, d) == [year |-> y, month |-> m, day |-> d]

\* (a1, a2) < (b1, b2) on tuples
TupleLess(a, b) == a[1] < b[1] \/ (a[1] = b[1] /\ a[2] < b[2])

\* mutant: the birthday test with <= for <, so that a birthday on the as-of
\* date itself is not yet counted
_calculate_age_le(dob, as_of) ==
    LET age == as_of.year - dob.year
        aged == IF ~TupleLess(<<dob.month, dob.day>>, <<as_of.month, as_of.day>>)
                THEN age - 1 ELSE age
    IN  IF aged > 0 THEN aged ELSE 0

_calculate_age(dob, as_of) ==
    LET age == as_of.year - dob.year
        aged == IF TupleLess(<<as_of.month, as_of.day>>, <<dob.month, dob.day>>)
                THEN age - 1 ELSE age
    IN  IF aged > 0 THEN aged ELSE 0

\* mutant: the Adult threshold with > for >=
_get_model_type_gt(age) ==
    IF age > 21 THEN "Adult"
    ELSE IF age >= 2 THEN "Child"
    ELSE "Infant"

_get_model_type(age) ==
    IF age >= 21 THEN "Adult"
    ELSE IF age >= 2 THEN "Child"
    ELSE "Infant"

\* mutant: the first Adult band ends at 25 instead of 24
_get_demographic_variable_25(model, gender, age) ==
    LET prefix == IF gender = <<"M">> THEN "M" ELSE "F"
    IN  IF model = "Adult" THEN
            IF age <= 25 THEN <<prefix, "AGE_LAST_21_24">>
            ELSE IF age <= 29 THEN <<prefix, "AGE_LAST_25_29">>
            ELSE IF age <= 34 THEN <<prefix, "AGE_LAST_30_34">>
            ELSE IF age <= 39 THEN <<prefix, "AGE_LAST_35_39">>
            ELSE IF age <= 44 THEN <<prefix, "AGE_LAST_40_44">>
            ELSE IF age <= 49 THEN <<prefix, "AGE_LAST_45_49">>
            ELSE IF age <= 54 THEN <<prefix, "AGE_LAST_50_54">>
            ELSE IF age <= 59 THEN <<prefix, "AGE_LAST_55_59">>
            ELSE <<prefix, "AGE_LAST_60_GT">>
        ELSE IF model = "Child" THEN
            IF age <= 4 THEN <<prefix, "AGE_LAST_2_4">>
            ELSE IF age <= 9 THEN <<prefix, "AGE_LAST_5_9">>
            ELSE IF age <= 14 THEN <<prefix, "AGE_LAST_10_14">>
            ELSE <<prefix, "AGE_LAST_15_20">>
        ELSE <<prefix, "AGE_LAST_0_1">>

_get_demographic_variable(model, gender, age) ==
    LET prefix == IF gender = <<"M">> THEN "M" ELSE "F"
    IN  IF model = "Adult" THEN
            IF age <= 24 THEN <<prefix, "AGE_LAST_21_24">>
            ELSE IF age <= 29 THEN <<prefix, "AGE_LAST_25_29">>
            ELSE IF age <= 34 THEN <<prefix, "AGE_LAST_30_34">>
            ELSE IF age <= 39 THEN <<prefix, "AGE_LAST_35_39">>
            ELSE IF age <= 44 THEN <<prefix, "AGE_LAST_40_44">>
            ELSE IF age <= 49 THEN <<prefix, "AGE_LAST_45_49">>
            ELSE IF age <= 54 THEN <<prefix, "AGE_LAST_50_54">>
            ELSE IF age <= 59 THEN <<prefix, "AGE_LAST_55_59">>
            ELSE <<prefix, "AGE_LAST_60_GT">>
        ELSE IF model = "Child" THEN
            IF age <= 4 THEN <<prefix, "AGE_LAST_2_4">>
            ELSE IF age <= 9 THEN <<prefix, "AGE_LAST_5_9">>
            ELSE IF age <= 14 THEN <<prefix, "AGE_LAST_10_14">>
            ELSE <<prefix, "AGE_LAST_15_20">>
        ELSE <<prefix, "AGE_LAST_0_1">>

lower(s) ==
    [i \in DOMAIN s |->
        IF \E k \in DOMAIN Uppers : Uppers[k] = s[i]
        THEN Lowers[CHOOSE k \in DOMAIN Uppers : Uppers[k] = s[i]]
        ELSE s[i]]

(***************************************************************************)
(* A dict is the sequence of its [key, value] items in insertion order.    *)
(***************************************************************************)
Keys(d) == {d[i].key : i \in DOMAIN d}

Get(d, k) == d[CHOOSE i \in DOMAIN d : d[i].key = k].value

(***************************************************************************)
(* table_loader.py: the tables of model year 2024 as the loaders return    *)
(* them.  The table files are data, not code; the rows below are a sample  *)
(* in the files' format (CC values as the ICD table stores them, group     *)
(* rules as SAS text).                                                     *)
(***************************************************************************)
model_year == <<"2", "0", "2", "4">>

\* load_icd_to_cc: ICD-10 code -> list of CCs, as str(row["cc"]).strip() gives them
_icd_to_cc == <<
    [key |-> <<"E", "1", "0", "1", "0">>, value |-> <<<<"1", "9", ".", "0">>>>],
    [key |-> <<"E", "1", "1", "6", "5">>, value |-> <<<<"2", "0", ".", "0">>>>],
    [key |-> <<"E", "1", "1", "9">>, value |-> <<<<"2", "1", ".", "0">>>>],
    [key |-> <<"E", "1", "1", "6">>, value |-> <<<<"2", "1", ".", "0">>>>],
    [key |-> <<"K", "5", "0", "0", "0">>, value |-> <<<<"4", "8", ".", "0">>>>],
    [key |-> <<"J", "9", "6", "0", "0">>, value |-> <<<<"1", "2", "7", ".", "0">>>>],
    [key |-> <<"F", "2", "0", "0">>, value |-> <<<<"8", "7", ".", "1">>>>],
    [key |-> <<"A", "0", "2", "1">>, value |-> <<<<"2", ".", "0">>>>]>>

\* load_hierarchies: dominant HCC -> list of the HCCs it supersedes (table_4)
_hierarchies == <<
    [key |-> <<"1", "9">>, value |-> <<<<"2", "0">>, <<"2", "1">>>>],
    [key |-> <<"2", "0">>, value |-> <<<<"2", "1">>>>],
    [key |-> <<"1", "2", "6">>, value |-> <<<<"1", "2", "7">>>>]>>

\* load_model_exclusions: model -> set of excluded HCCs (table_12)
_exclusions == <<
    [key |-> "Adult", value |-> {}],
    [key |-> "Child", value |-> {<<"4", "8">>}],
    [key |-> "Infant", value |-> {<<"2">>}]>>

\* load_ndc_to_rxc: NDC -> list of RXCs (table_10a)
_ndc_to_rxc == <<
    [key |-> <<"0", "0", "0", "0", "3", "1", "9", "6", "4", "0", "1">>, value |-> <<<<"1">>>>],
    [key |-> <<"0", "0", "0", "9", "3", "7", "2", "0", "1", "0", "1">>, value |-> <<<<"9">>>>],
    [key |-> <<"5", "0", "2", "4", "2", "0", "0", "4", "0", "6", "2">>, value |-> <<<<"1">>, <<"9">>>>],
    [key |-> <<"0", "0", "1", "6", "9", "4", "1", "3", "2", "1", "2">>, value |-> <<<<"0", "1">>>>]>>

\* load_rxc_hierarchies: dominant RXC -> list of the RXCs it supersedes (table_11)
_rxc_hierarchies == <<
    [key |-> <<"9">>, value |-> <<<<"1">>>>]>>

platinum == <<"p", "l", "a", "t", "i", "n", "u", "m">>

gold == <<"g", "o", "l", "d">>

silver == <<"s", "i", "l", "v", "e", "r">>

bronze == <<"b", "r", "o", "n", "z", "e">>

catastrophic == <<"c", "a", "t", "a", "s", "t", "r", "o", "p", "h", "i", "c">>


\* one row of table_9: the five metal-level columns, in thousandths
Levels(p, g, s, b, c) == <<
    [key |-> platinum, value |-> p],
    [key |-> gold, value |-> g],
    [key |-> silver, value |-> s],
    [key |-> bronze, value |-> b],
    [key |-> catastrophic, value |-> c]>>

HHS_HCC(hcc) == <<"HHS_HCC">> \o hcc

RXC_(rxc) == <<"RXC_">> \o rxc

HCC_ED(months) == <<"HCC_ED">> \o months

\* load_coefficients: (model, variable) -> metal level -> coefficient (table_9)
_coefficients == <<
    [key |-> <<"Adult", <<"M", "AGE_LAST_21_24">>>>, value |-> Levels(155, 120, 85, 60, 58)],
    [key |-> <<"Adult", <<"F", "AGE_LAST_21_24">>>>, value |-> Levels(260, 210, 150, 100, 98)],
    [key |-> <<"Adult", <<"M", "AGE_LAST_40_44">>>>, value |-> Levels(250, 200, 145, 100, 97)],
    [key |-> <<"Adult", <<"F", "AGE_LAST_40_44">>>>, value |-> Levels(390, 320, 240, 170, 168)],
    [key |-> <<"Adult", <<"M", "AGE_LAST_60_GT">>>>, value |-> Levels(640, 540, 430, 330, 327)],
    [key |-> <<"Child", <<"M", "AGE_LAST_5_9">>>>, value |-> Levels(190, 130, 60, 20, 20)],
    [key |-> <<"Child", <<"F", "AGE_LAST_5_9">>>>, value |-> Levels(140, 90, 40, 10, 10)],
    [key |-> <<"Adult", HHS_HCC(<<"0", "1", "9">>)>>, value |-> Levels(1100, 900, 800, 700, 690)],
    [key |-> <<"Adult", HHS_HCC(<<"0", "2", "0">>)>>, value |-> Levels(1000, 850, 750, 650, 640)],
    [key |-> <<"Adult", HHS_HCC(<<"0", "2", "1">>)>>, value |-> Levels(500, 400, 300, 250, 240)],
    [key |-> <<"Adult", HHS_HCC(<<"0", "4", "8">>)>>, value |-> Levels(2100, 1900, 1800, 1700, 1690)],
    [key |-> <<"Adult", HHS_HCC(<<"0", "8", "7", "_", "1">>)>>, value |-> Levels(2800, 2600, 2500, 2400, 2390)],
    [key |-> <<"Adult", HHS_HCC(<<"1", "2", "7">>)>>, value |-> Levels(9000, 8800, 8700, 8600, 8590)],
    [key |-> <<"Adult", HHS_HCC(<<"0", "0", "2">>)>>, value |-> Levels(440, 390, 340, 300, 280)],
    [key |-> <<"Adult", <<"G", "0", "1">>>>, value |-> Levels(320, 270, 230, 190, 188)],
    [key |-> <<"Adult", <<"G", "1", "3">>>>, value |-> Levels(9500, 9300, 9200, 9100, 9090)],
    [key |-> <<"Adult", HCC_ED(<<"1">>)>>, value |-> Levels(900, 800, 0, 600, 590)],
    [key |-> <<"Adult", HCC_ED(<<"6">>)>>, value |-> Levels(300, 250, 200, 150, 148)],
    [key |-> <<"Adult", RXC_(<<"0", "1">>)>>, value |-> Levels(4000, 3500, 3000, 2500, 2490)],
    [key |-> <<"Adult", RXC_(<<"0", "9">>)>>, value |-> Levels(1200, 1000, 0, 800, 790)],
    [key |-> <<"Adult", RXC_(<<"0", "0", "9">>)>>, value |-> Levels(1300, 1100, 950, 850, 840)],
    [key |-> <<"Child", HHS_HCC(<<"0", "1", "9">>)>>, value |-> Levels(2300, 2100, 1900, 1700, 1690)],
    [key |-> <<"Child", HHS_HCC(<<"1", "2", "7">>)>>, value |-> Levels(11000, 10800, 10700, 10600, 10590)],
    [key |-> <<"Child", <<"G", "0", "1">>>>, value |-> Levels(2400, 2200, 2000, 1800, 1790)],
    [key |-> <<"Infant", HHS_HCC(<<"1", "2", "7">>)>>, value |-> Levels(5000, 4900, 4800, 4700, 4690)]>>

(***************************************************************************)
(* table_6.json / table_7.json: one item per variable, its rule a SAS       *)
(* statement.  A rule text is the sequence of its pieces: a literal piece   *)
(* [text |-> ...], or a variable reference HHS_HCCnnn as [hcc |-> nnn],     *)
(* nnn being what the pattern HHS_HCC(\d+(?:_\d+)?) captures there.         *)
(***************************************************************************)
table_6 == <<
    [model |-> "Adult", variable |-> <<"G", "0", "1">>,
     definition |-> <<[text |-> "if "], [hcc |-> <<"0", "1", "9">>], [text |-> " = 1 then do; "], [hcc |-> <<"0", "1", "9">>], [text |-> " = 0; "], [text |-> "G01 = 1; end;"]>>,
     continuation |-> <<[definition |-> <<[text |-> "if "], [hcc |-> <<"0", "2", "0">>], [text |-> " = 1 then do; "], [hcc |-> <<"0", "2", "0">>], [text |-> " = 0; "], [text |-> "G01 = 1; end;"]>>], [definition |-> <<[text |-> "if "], [hcc |-> <<"0", "2", "1">>], [text |-> " = 1 then do; "], [hcc |-> <<"0", "2", "1">>], [text |-> " = 0; "], [text |-> "G01 = 1; end;"]>>]>>],
    [model |-> "Adult", variable |-> <<"G", "1", "3">>,
     definition |-> <<[text |-> "if "], [hcc |-> <<"1", "2", "6">>], [text |-> " = 1 then do; "], [hcc |-> <<"1", "2", "6">>], [text |-> " = 0; "], [text |-> "G13 = 1; end;"]>>,
     continuation |-> <<[definition |-> <<[text |-> "if "], [hcc |-> <<"1", "2", "7">>], [text |-> " = 1 then do; "], [hcc |-> <<"1", "2", "7">>], [text |-> " = 0; "], [text |-> "G13 = 1; end;"]>>]>>],
    [model |-> "Adult", variable |-> <<"S", "E", "V", "E", "R", "E", "_", "V", "3">>,
     definition |-> <<[text |-> "if "], [hcc |-> <<"0", "0", "2">>], [text |-> " = 1 or "], [hcc |-> <<"1", "2", "7">>], [text |-> " = 1 then SEVERE_V3 = 1;"]>>,
     continuation |-> <<>>]>>


table_7 == <<
    [model |-> "Child", variable |-> <<"G", "0", "1">>,
     definition |-> <<[text |-> "if "], [hcc |-> <<"0", "1", "9">>], [text |-> " = 1 then do; "], [hcc |-> <<"0", "1", "9">>], [text |-> " = 0; "], [text |-> "G01 = 1; end;"]>>,
     continuation |-> <<[definition |-> <<[text |-> "if "], [hcc |-> <<"0", "2", "0">>], [text |-> " = 1 then do; "], [hcc |-> <<"0", "2", "0">>], [text |-> " = 0; "], [text |-> "G01 = 1; end;"]>>], [definition |-> <<[text |-> "if "], [hcc |-> <<"0", "2", "1">>], [text |-> " = 1 then do; "], [hcc |-> <<"0", "2", "1">>], [text |-> " = 0; "], [text |-> "G01 = 1; end;"]>>]>>]>>


\* "= 0" in definition: the literal pieces that hold a zeroing assignment
HasZeroing(definition) ==
    \E i \in DOMAIN definition :
        "text" \in DOMAIN definition[i] /\ definition[i].text = " = 0; "

\* re.findall(r"HHS_HCC(\d+(?:_\d+)?)", definition): the captured digits of
\* every reference, in order of occurrence, as written in the rule
RECURSIVE _extract_hccs_from_definition(_)
_extract_hccs_from_definition(definition) ==
    IF definition = <<>> THEN <<>>
    ELSE (IF "hcc" \in DOMAIN Head(definition) THEN <<Head(definition).hcc>> ELSE <<>>)
         \o _extract_hccs_from_definition(Tail(definition))

RECURSIVE ExtractAll(_)
ExtractAll(continuation) ==
    IF continuation = <<>> THEN <<>>
    ELSE _extract_hccs_from_definition(Head(continuation).definition)
         \o ExtractAll(Tail(continuation))

\* groups[variable] = hccs: a dict assignment (a repeated key keeps its place)
Put(d, k, v) ==
    IF k \in Keys(d)
    THEN [i \in DOMAIN d |-> IF d[i].key = k THEN [key |-> k, value |-> v] ELSE d[i]]
    ELSE Append(d, [key |-> k, value |-> v])

RECURSIVE GroupsOf(_, _, _)
GroupsOf(data, model, groups) ==
    IF data = <<>> THEN groups
    ELSE LET item == Head(data)
             is_replacement ==
                 \/ HasZeroing(item.definition)
                 \/ \E i \in DOMAIN item.continuation :
                        HasZeroing(item.continuation[i].definition)
             hccs == _extract_hccs_from_definition(item.definition)
                     \o ExtractAll(item.continuation)
         IN  IF \/ item.model # model
                \/ item.variable = <<>>
                \/ ~is_replacement
                \/ hccs = <<>>
             THEN GroupsOf(Tail(data), model, groups)
             ELSE GroupsOf(Tail(data), model, Put(groups, item.variable, hccs))

\* load_hcc_groups(model_year, model): group variable -> list of member HCCs
load_hcc_groups(model) ==
    GroupsOf(IF model = "Adult" THEN table_6 ELSE table_7, model, <<>>)

(***************************************************************************)
(* hierarchies.py and calculator.py: the steps of score()                  *)
(***************************************************************************)
\* mutant: the inner loop ends after its first discard
DiscardAll_first(s, superseded_list) ==
    IF superseded_list = <<>> THEN s ELSE s \ {Head(superseded_list)}

\* for superseded in superseded_list: s.discard(superseded)
RECURSIVE DiscardAll(_, _)
DiscardAll(s, superseded_list) ==
    IF superseded_list = <<>> THEN s
    ELSE DiscardAll(s \ {Head(superseded_list)}, Tail(superseded_list))

\* the loop of apply_hierarchies over the rows still to visit, hcc_set being
\* the working copy: a row acts when its dominant is in the working copy
RECURSIVE HierarchyLoop(_, _)
HierarchyLoop(hcc_set_, rows) ==
    IF rows = <<>> THEN hcc_set_
    ELSE HierarchyLoop(IF Head(rows).key \in hcc_set_
                       THEN DiscardAll(hcc_set_, Head(rows).value)
                       ELSE hcc_set_,
                       Tail(rows))

\* mutant: the membership test negated ("if dominant not in hcc_set")
RECURSIVE NegatedHierarchyLoop(_, _)
NegatedHierarchyLoop(hcc_set_, rows) ==
    IF rows = <<>> THEN hcc_set_
    ELSE NegatedHierarchyLoop(IF Head(rows).key \notin hcc_set_
                              THEN DiscardAll(hcc_set_, Head(rows).value)
                              ELSE hcc_set_,
                              Tail(rows))

apply_hierarchies_negated(cc_set_, table) == NegatedHierarchyLoop(cc_set_, table)

\* apply_hierarchies(cc_set, model_year), the table being load_hierarchies(model_year)
apply_hierarchies(cc_set_, table) == HierarchyLoop(cc_set_, table)

\* ACACalculator._apply_rxc_hierarchies: the same loop over self._rxc_hierarchies
RECURSIVE RxcHierarchyLoop(_, _)
RxcHierarchyLoop(final_rxcs_, rows) ==
    IF rows = <<>> THEN final_rxcs_
    ELSE RxcHierarchyLoop(IF Head(rows).key \in final_rxcs_
                          THEN DiscardAll(final_rxcs_, Head(rows).value)
                          ELSE final_rxcs_,
                          Tail(rows))

_apply_rxc_hierarchies(rxcs, table) == RxcHierarchyLoop(rxcs, table)

\* mutant: the metal level looked up as given, without .lower()
_get_coefficient_as_given(model, variable, metal_level) ==
    LET key == <<model, variable>>
    IN  IF key \notin Keys(_coefficients) THEN 0
        ELSE LET row == Get(_coefficients, key)
             IN  IF metal_level \in Keys(row) THEN Get(row, metal_level) ELSE 0

_get_coefficient(model, variable, metal_level) ==
    LET key == <<model, variable>>
    IN  IF key \notin Keys(_coefficients) THEN 0
        ELSE LET metal == lower(metal_level)
                 row == Get(_coefficients, key)
             IN  IF metal \in Keys(row) THEN Get(row, metal) ELSE 0

\* the CCs one diagnosis code contributes: exact match, else the first of the
\* prefixes of length 6, 5, 4, 3 that is a key
RECURSIVE PrefixMatch(_, _)
PrefixMatch(dx_clean, lengths) ==
    IF lengths = <<>> THEN {}
    ELSE IF Prefix(dx_clean, Head(lengths)) \in Keys(_icd_to_cc)
         THEN Range(Get(_icd_to_cc, Prefix(dx_clean, Head(lengths))))
         ELSE PrefixMatch(dx_clean, Tail(lengths))

\* mutant: the prefixes tried shortest first
CcsOfDiagnosis_shortest_first(dx) ==
    LET dx_clean == upper(replace(dx, ".", <<>>))
    IN  IF dx_clean \in Keys(_icd_to_cc) THEN Range(Get(_icd_to_cc, dx_clean))
        ELSE PrefixMatch(dx_clean, <<3, 4, 5, 6>>)

CcsOfDiagnosis(dx) ==
    LET dx_clean == upper(replace(dx, ".", <<>>))
    IN  IF dx_clean \in Keys(_icd_to_cc) THEN Range(Get(_icd_to_cc, dx_clean))
        ELSE PrefixMatch(dx_clean, <<6, 5, 4, 3>>)

\* "21.0" -> "21", "35.1" -> "35_1"
NormalizeCc(cc) ==
    replace(IF endswith(cc, <<".", "0">>) THEN SubSeq(cc, 1, Len(cc) - 2) ELSE cc,
            ".", <<"_">>)

_map_diagnoses_to_ccs(diagnoses) ==
    {NormalizeCc(cc) : cc \in UNION {CcsOfDiagnosis(diagnoses[i]) : i \in DOMAIN diagnoses}}

_exclude_model_hccs(hccs, model) ==
    hccs \ (IF model \in Keys(_exclusions) THEN Get(_exclusions, model) ELSE {})

\* the loop of _apply_groupings over the groups still to visit
RECURSIVE GroupingLoop(_, _, _)
GroupingLoop(remaining_hccs, triggered_groups, groups) ==
    IF groups = <<>>
    THEN [remaining_hccs |-> remaining_hccs, triggered_groups |-> triggered_groups]
    ELSE LET group_var == Head(groups).key
             group_hccs == Head(groups).value
         IN  IF \E i \in DOMAIN group_hccs : group_hccs[i] \in remaining_hccs
             THEN GroupingLoop(DiscardAll(remaining_hccs, group_hccs),
                               triggered_groups \cup {group_var}, Tail(groups))
             ELSE GroupingLoop(remaining_hccs, triggered_groups, Tail(groups))

_apply_groupings(hccs, model) ==
    IF model = "Infant"
    THEN [remaining_hccs |-> hccs, triggered_groups |-> {}]
    ELSE GroupingLoop(hccs, {}, load_hcc_groups(model))

\* mutant: the dashes removed but the whitespace not stripped
RxcsOfNdc_no_strip(ndc) ==
    LET ndc_clean == replace(ndc, "-", <<>>)
    IN  IF ndc_clean \in Keys(_ndc_to_rxc) THEN Range(Get(_ndc_to_rxc, ndc_clean))
        ELSE IF isdigit(ndc_clean) /\ Len(ndc_clean) < 11
                /\ zfill(ndc_clean, 11) \in Keys(_ndc_to_rxc)
             THEN Range(Get(_ndc_to_rxc, zfill(ndc_clean, 11)))
             ELSE {}

RxcsOfNdc(ndc) ==
    LET ndc_clean == strip(replace(ndc, "-", <<>>))
    IN  IF ndc_clean \in Keys(_ndc_to_rxc) THEN Range(Get(_ndc_to_rxc, ndc_clean))
        ELSE IF isdigit(ndc_clean) /\ Len(ndc_clean) < 11
                /\ zfill(ndc_clean, 11) \in Keys(_ndc_to_rxc)
             THEN Range(Get(_ndc_to_rxc, zfill(ndc_clean, 11)))
             ELSE {}

_map_ndcs_to_rxcs(ndc_codes) == UNION {RxcsOfNdc(ndc_codes[i]) : i \in DOMAIN ndc_codes}

_find_source_icds_for_hcc(hcc, diagnoses) ==
    SelectSeq(diagnoses, LAMBDA dx : hcc \in _map_diagnoses_to_ccs(<<dx>>))

_find_source_ndcs_for_rxc(rxc, ndc_codes) ==
    SelectSeq(ndc_codes, LAMBDA ndc : rxc \in _map_ndcs_to_rxcs(<<ndc>>))

\* the coefficient variable of an individual HCC
HccVarName(hcc) ==
    IF isdigit(hcc) THEN HHS_HCC(zfill(hcc, 3))
    ELSE LET parts == split(hcc, "_")
         IN  IF Len(parts) = 2 /\ isdigit(parts[1])
             THEN HHS_HCC(zfill(parts[1], 3) \o <<"_">> \o parts[2])
             ELSE HHS_HCC(hcc)

\* mutant: the candidate loop without its break, so that the last non-zero
\* candidate wins
RECURSIVE FirstNonZero_no_break(_, _, _)
FirstNonZero_no_break(candidates, model, metal_level) ==
    IF candidates = <<>> THEN [var_name |-> <<>>, coef |-> 0]
    ELSE LET c == _get_coefficient(model, Head(candidates), metal_level)
             later == FirstNonZero_no_break(Tail(candidates), model, metal_level)
         IN  IF later.coef # 0 THEN later
             ELSE IF c # 0 THEN [var_name |-> Head(candidates), coef |-> c]
             ELSE later

\* the first candidate variable of an RXC with a non-zero coefficient, as
\* [var_name, coef]; coef = 0 when there is none
RECURSIVE FirstNonZero(_, _, _)
FirstNonZero(candidates, model, metal_level) ==
    IF candidates = <<>> THEN [var_name |-> <<>>, coef |-> 0]
    ELSE LET c == _get_coefficient(model, Head(candidates), metal_level)
         IN  IF c # 0 THEN [var_name |-> Head(candidates), coef |-> c]
             ELSE FirstNonZero(Tail(candidates), model, metal_level)

RxcCandidates(rxc) == <<RXC_(zfill(rxc, 2)), RXC_(zfill(rxc, 3)), RXC_(rxc), rxc>>

\* str(n) for an int n >= 0
RECURSIVE str(_)
str(n) ==
    IF n < 10 THEN <<CodePoints[ord("0") + n]>>
    ELSE str(n \div 10) \o <<CodePoints[ord("0") + (n % 10)]>>

\* int(getattr(member, "enrollment_months", 12) or 12)
EnrollmentMonthsOf(member_) ==
    IF member_.enrollment_months = 0 THEN 12 ELSE member_.enrollment_months

\* score(), steps 1 to 6 and the sets of steps 7b and 8: everything that does
\* not depend on the order in which a set is iterated
ScoreSteps(member_, prediction_year) ==
    LET target_year == IF prediction_year # None THEN prediction_year[1]
                       ELSE int(model_year)
        benefit_year_end == date(target_year, 12, 31)
        age == _calculate_age(member_.date_of_birth, benefit_year_end)
        model == _get_model_type(age)
        demo_var == _get_demographic_variable(model, member_.gender, age)
        raw_ccs == _map_diagnoses_to_ccs(member_.diagnoses)
        hccs_after_hierarchy == apply_hierarchies(raw_ccs, _hierarchies)
        hccs_filtered == _exclude_model_hccs(hccs_after_hierarchy, model)
        grouping == _apply_groupings(hccs_filtered, model)
        raw_rxcs == _map_ndcs_to_rxcs(member_.ndc_codes)
    IN  [age |-> age,
         model |-> model,
         demo_var |-> demo_var,
         demographic_factor |-> _get_coefficient(model, demo_var, member_.metal_level),
         raw_ccs |-> raw_ccs,
         hccs_after_hierarchy |-> hccs_after_hierarchy,
         hccs_filtered |-> hccs_filtered,
         remaining_hccs |-> grouping.remaining_hccs,
         triggered_groups |-> grouping.triggered_groups,
         grouped_hccs |-> hccs_filtered \ grouping.remaining_hccs,
         hcc_cnt |-> Cardinality(grouping.remaining_hccs)
                     + Cardinality(grouping.triggered_groups),
         raw_rxcs |-> raw_rxcs,
         rxcs_after_hierarchy |-> _apply_rxc_hierarchies(raw_rxcs, _rxc_hierarchies)]

\* mutant: the demographic component without its coefficient
DemographicComponent_no_coefficient(st, member_) ==
    [component_type |-> "demographic",
     component_code |-> st.demo_var,
     coefficient |-> 0,
     source_data |-> <<<<"age=">> \o str(st.age), <<"gender=">> \o member_.gender>>]

\* step 2: the demographic component, appended whatever its coefficient
DemographicComponent(st, member_) ==
    [component_type |-> "demographic",
     component_code |-> st.demo_var,
     coefficient |-> st.demographic_factor,
     source_data |-> <<<<"age=">> \o str(st.age), <<"gender=">> \o member_.gender>>]

\* step 7, "for hcc in remaining_hccs", the set iterated in the order given
RECURSIVE HccComponents(_, _, _)
HccComponents(order, st, member_) ==
    IF order = <<>> THEN <<>>
    ELSE LET hcc == Head(order)
             var_name == HccVarName(hcc)
             coef == _get_coefficient(st.model, var_name, member_.metal_level)
         IN  (IF coef # 0
              THEN <<[component_type |-> "hcc",
                      component_code |-> var_name,
                      coefficient |-> coef,
                      source_data |-> _find_source_icds_for_hcc(hcc, member_.diagnoses)]>>
              ELSE <<>>)
             \o HccComponents(Tail(order), st, member_)

\* step 7, "for group in triggered_groups"
RECURSIVE GroupComponents(_, _, _)
GroupComponents(order, st, member_) ==
    IF order = <<>> THEN <<>>
    ELSE LET group == Head(order)
             coef == _get_coefficient(st.model, group, member_.metal_level)
             groups_map == load_hcc_groups(st.model)
             group_members == IF group \in Keys(groups_map) THEN Get(groups_map, group)
                              ELSE <<>>
         IN  (IF coef # 0
              THEN <<[component_type |-> "hcc_group",
                      component_code |-> group,
                      coefficient |-> coef,
                      source_data |-> SelectSeq(group_members, LAMBDA h : h \in st.grouped_hccs)]>>
              ELSE <<>>)
             \o GroupComponents(Tail(order), st, member_)

\* mutant: the months test with 7 for 6
EnrollmentDurationFactor_le7(st, member_) ==
    LET enrollment_months == EnrollmentMonthsOf(member_)
    IN  IF /\ st.model = "Adult"
           /\ 1 <= enrollment_months /\ enrollment_months <= 7
           /\ st.hcc_cnt > 0
        THEN LET edf_var == HCC_ED(str(enrollment_months))
                 edf_factor == _get_coefficient(st.model, edf_var, member_.metal_level)
             IN  [edf_var |-> Some(edf_var),
                  edf_factor |-> edf_factor,
                  components |->
                      IF edf_factor # 0
                      THEN <<[component_type |-> "edf",
                              component_code |-> edf_var,
                              coefficient |-> edf_factor,
                              source_data |->
                                  <<<<"enrollment_months=">> \o str(enrollment_months),
                                    <<"hcc_cnt=">> \o str(st.hcc_cnt)>>]>>
                      ELSE <<>>]
        ELSE [edf_var |-> None, edf_factor |-> 0, components |-> <<>>]

\* mutant: the test hcc_cnt > 0 left out
EnrollmentDurationFactor_any_cnt(st, member_) ==
    LET enrollment_months == EnrollmentMonthsOf(member_)
    IN  IF /\ st.model = "Adult"
           /\ 1 <= enrollment_months /\ enrollment_months <= 6
        THEN LET edf_var == HCC_ED(str(enrollment_months))
                 edf_factor == _get_coefficient(st.model, edf_var, member_.metal_level)
             IN  [edf_var |-> Some(edf_var),
                  edf_factor |-> edf_factor,
                  components |->
                      IF edf_factor # 0
                      THEN <<[component_type |-> "edf",
                              component_code |-> edf_var,
                              coefficient |-> edf_factor,
                              source_data |->
                                  <<<<"enrollment_months=">> \o str(enrollment_months),
                                    <<"hcc_cnt=">> \o str(st.hcc_cnt)>>]>>
                      ELSE <<>>]
        ELSE [edf_var |-> None, edf_factor |-> 0, components |-> <<>>]

\* step 7b: edf_var, edf_factor and the component when the factor is not zero
EnrollmentDurationFactor(st, member_) ==
    LET enrollment_months == EnrollmentMonthsOf(member_)
    IN  IF /\ st.model = "Adult"
           /\ 1 <= enrollment_months /\ enrollment_months <= 6
           /\ st.hcc_cnt > 0
        THEN LET edf_var == HCC_ED(str(enrollment_months))
                 edf_factor == _get_coefficient(st.model, edf_var, member_.metal_level)
             IN  [edf_var |-> Some(edf_var),
                  edf_factor |-> edf_factor,
                  components |->
                      IF edf_factor # 0
                      THEN <<[component_type |-> "edf",
                              component_code |-> edf_var,
                              coefficient |-> edf_factor,
                              source_data |->
                                  <<<<"enrollment_months=">> \o str(enrollment_months),
                                    <<"hcc_cnt=">> \o str(st.hcc_cnt)>>]>>
                      ELSE <<>>]
        ELSE [edf_var |-> None, edf_factor |-> 0, components |-> <<>>]

\* step 8, "for rxc in rxcs_after_hierarchy"
RECURSIVE RxcComponents(_, _, _)
RxcComponents(order, st, member_) ==
    IF order = <<>> THEN <<>>
    ELSE LET rxc == Head(order)
             hit == FirstNonZero(RxcCandidates(rxc), st.model, member_.metal_level)
         IN  (IF hit.coef # 0
              THEN <<[component_type |-> "rxc",
                      component_code |-> hit.var_name,
                      coefficient |-> hit.coef,
                      source_data |-> _find_source_ndcs_for_rxc(rxc, member_.ndc_codes)]>>
              ELSE <<>>)
             \o RxcComponents(Tail(order), st, member_)

\* hcc_details / rxc_details: details[var_name] = coef, one assignment per component
RECURSIVE CoefficientsOf(_, _)
CoefficientsOf(components, d) ==
    IF components = <<>> THEN d
    ELSE CoefficientsOf(Tail(components),
                        Put(d, Head(components).component_code, Head(components).coefficient))

RECURSIVE SumCoefficients(_)
SumCoefficients(components) ==
    IF components = <<>> THEN 0
    ELSE Head(components).coefficient + SumCoefficients(Tail(components))

(***************************************************************************)
(* Python float: IEEE 754 binary64, round to nearest, ties to even.  A     *)
(* non-negative float is [exponent |-> e, high |-> h, low |-> l]: its 53   *)
(* significand bits are the 27 bits of h followed by the 26 bits of l, and *)
(* it stands for (h * 2^26 + l) * 2^(e - 52); 0.0 has h = l = 0.  The      *)
(* coefficients of table_9 are non-negative.                               *)
(***************************************************************************)
HighBits == 27

LowBits == 26

PositiveZero == [exponent |-> 0, high |-> 0, low |-> 0]

\* the significand h.l of a sum that may have one bit too many, followed by
\* the first bit lost (guard) and whether any later bit lost is 1 (sticky):
\* rounded to nearest, ties to even, and normalized
RoundToFloat(e, h, l, guard, sticky) ==
    LET wide == h >= 2^HighBits
        e1 == IF wide THEN e + 1 ELSE e
        h1 == IF wide THEN h \div 2 ELSE h
        l1 == IF wide THEN (h % 2) * 2^(LowBits - 1) + l \div 2 ELSE l
        g1 == IF wide THEN l % 2 ELSE guard
        s1 == IF wide THEN (IF guard = 1 \/ sticky = 1 THEN 1 ELSE 0) ELSE sticky
        up == g1 = 1 /\ (s1 = 1 \/ l1 % 2 = 1)
        l2 == IF up THEN (l1 + 1) % 2^LowBits ELSE l1
        h2 == IF up /\ l1 + 1 = 2^LowBits THEN h1 + 1 ELSE h1
    IN  IF h2 = 2^HighBits
        THEN [exponent |-> e1 + 1, high |-> 2^(HighBits - 1), low |-> 0]
        ELSE [exponent |-> e1, high |-> h2, low |-> l2]

\* y's significand shifted right by d bits: what is left of h.l, then the
\* guard and sticky bits of what was shifted out
ShiftRight(y, d) ==
    IF d = 0 THEN [high |-> y.high, low |-> y.low, guard |-> 0, sticky |-> 0]
    ELSE IF d <= LowBits
    THEN LET lost == y.low % 2^d
         IN  [high |-> y.high \div 2^d,
              low |-> (y.high % 2^d) * 2^(LowBits - d) + y.low \div 2^d,
              guard |-> lost \div 2^(d - 1),
              sticky |-> IF lost % 2^(d - 1) # 0 THEN 1 ELSE 0]
    ELSE IF d <= HighBits + LowBits
    THEN LET k == d - LowBits
             lost == y.high % 2^k
         IN  [high |-> 0,
              low |-> y.high \div 2^k,
              guard |-> lost \div 2^(k - 1),
              sticky |-> IF lost % 2^(k - 1) # 0 \/ y.low # 0 THEN 1 ELSE 0]
    ELSE [high |-> 0, low |-> 0, guard |-> 0, sticky |-> 1]

\* float.__add__ of two non-negative floats: the exact sum, rounded once
float_add(x, y) ==
    IF x = PositiveZero THEN y
    ELSE IF y = PositiveZero THEN x
    ELSE LET big == IF x.exponent >= y.exponent THEN x ELSE y
             small == IF x.exponent >= y.exponent THEN y ELSE x
             s == ShiftRight(small, big.exponent - small.exponent)
             l == big.low + s.low
         IN  RoundToFloat(big.exponent, big.high + s.high + l \div 2^LowBits,
                          l % 2^LowBits, s.guard, s.sticky)

\* float(row[...]) of a table_9 cell holding thousandths / 1000: the nearest
\* float, by long division, 13 bits of the quotient at a time
float(thousandths) ==
    IF thousandths = 0 THEN PositiveZero
    ELSE LET e == CHOOSE i \in -10..20 :
                      IF i < 0
                      THEN 1000 <= thousandths * 2^(0 - i) /\ thousandths * 2^(0 - i) < 2000
                      ELSE 1000 * 2^i <= thousandths /\ thousandths < 2000 * 2^i
             n == IF e < 0 THEN thousandths * 2^(0 - e) ELSE thousandths
             d == IF e < 0 THEN 1000 ELSE 1000 * 2^e
             r0 == n - d
             r1 == (r0 * 2^13) % d
             r2 == (r1 * 2^13) % d
             r3 == (r2 * 2^13) % d
             r4 == (r3 * 2^13) % d
         IN  RoundToFloat(e,
                          2^LowBits + ((r0 * 2^13) \div d) * 2^13 + (r1 * 2^13) \div d,
                          ((r2 * 2^13) \div d) * 2^13 + (r3 * 2^13) \div d,
                          IF 2 * r4 >= d THEN 1 ELSE 0,
                          IF (2 * r4) % d # 0 THEN 1 ELSE 0)

\* hcc_score += coef, rxc_score += coef: the float a loop leaves in its
\* accumulator after adding the components' coefficients in list order
RECURSIVE Accumulate(_, _)
Accumulate(total, components) ==
    IF components = <<>> THEN total
    ELSE Accumulate(float_add(total, float(Head(components).coefficient)), Tail(components))

\* The binary64 values of hcc_score, rxc_score and total_score of a call.
\* Steps 7, 7b and 8 append a component each time they add a coefficient,
\* so the components list holds the addends in the order they were added.
FloatScores(components) ==
    LET hcc_score == Accumulate(PositiveZero,
                         SelectSeq(components,
                             LAMBDA c : c.component_type \in {"hcc", "hcc_group", "edf"}))
        rxc_score == Accumulate(PositiveZero,
                         SelectSeq(components, LAMBDA c : c.component_type = "rxc"))
    IN  [hcc_score |-> hcc_score,
         rxc_score |-> rxc_score,
         risk_score |-> float_add(float_add(float(components[1].coefficient), hcc_score),
                                  rxc_score)]

\* mutant: the total without rxc_score
ScoreOutputOf_no_rxc(member_, st, hcc_components, edf, rxc_components) ==
    LET components == <<DemographicComponent(st, member_)>> \o hcc_components
                      \o edf.components \o rxc_components
        hcc_score == SumCoefficients(hcc_components) + SumCoefficients(edf.components)
        rxc_score == SumCoefficients(rxc_components)
    IN  IF \E i \in DOMAIN components : ~ScoreComponentValid(components[i])
        THEN [raised |-> "ValidationError"]
        ELSE [member_id |-> member_.member_id,
              risk_score |-> st.demographic_factor + hcc_score,
              hcc_list |-> sorted(st.remaining_hccs) \o sorted(st.triggered_groups),
              components |-> components,
              details |->
                  [model |-> st.model,
                   age |-> st.age,
                   gender |-> member_.gender,
                   metal_level |-> member_.metal_level,
                   enrollment_months |-> member_.enrollment_months,
                   demographic_variable |-> st.demo_var,
                   demographic_factor |-> st.demographic_factor,
                   raw_ccs |-> sorted(st.raw_ccs),
                   hccs_after_hierarchy |-> sorted(st.hccs_after_hierarchy),
                   hccs_filtered |-> sorted(st.hccs_filtered),
                   remaining_hccs |-> sorted(st.remaining_hccs),
                   triggered_groups |-> sorted(st.triggered_groups),
                   hcc_cnt |-> st.hcc_cnt,
                   edf_variable |-> edf.edf_var,
                   edf_factor |-> edf.edf_factor,
                   hcc_coefficients |-> CoefficientsOf(hcc_components \o edf.components, <<>>),
                   hcc_score |-> hcc_score,
                   raw_rxcs |-> sorted(st.raw_rxcs),
                   rxcs_after_hierarchy |-> sorted(st.rxcs_after_hierarchy),
                   rxc_coefficients |-> CoefficientsOf(rxc_components, <<>>),
                   rxc_score |-> rxc_score,
                   model_year |-> model_year]]

\* score(), step 9 and the return: the total and the ScoreOutput, given the
\* steps' results and the components of steps 7, 7b and 8; a component that
\* ScoreComponent refuses ends the call with its validation error
ScoreOutputOf(member_, st, hcc_components, edf, rxc_components) ==
    LET components == <<DemographicComponent(st, member_)>> \o hcc_components
                      \o edf.components \o rxc_components
        hcc_score == SumCoefficients(hcc_components) + SumCoefficients(edf.components)
        rxc_score == SumCoefficients(rxc_components)
    IN  IF \E i \in DOMAIN components : ~ScoreComponentValid(components[i])
        THEN [raised |-> "ValidationError"]
        ELSE [member_id |-> member_.member_id,
              risk_score |-> st.demographic_factor + hcc_score + rxc_score,
              hcc_list |-> sorted(st.remaining_hccs) \o sorted(st.triggered_groups),
              components |-> components,
              details |->
                  [model |-> st.model,
                   age |-> st.age,
                   gender |-> member_.gender,
                   metal_level |-> member_.metal_level,
                   enrollment_months |-> member_.enrollment_months,
                   demographic_variable |-> st.demo_var,
                   demographic_factor |-> st.demographic_factor,
                   raw_ccs |-> sorted(st.raw_ccs),
                   hccs_after_hierarchy |-> sorted(st.hccs_after_hierarchy),
                   hccs_filtered |-> sorted(st.hccs_filtered),
                   remaining_hccs |-> sorted(st.remaining_hccs),
                   triggered_groups |-> sorted(st.triggered_groups),
                   hcc_cnt |-> st.hcc_cnt,
                   edf_variable |-> edf.edf_var,
                   edf_factor |-> edf.edf_factor,
                   hcc_coefficients |-> CoefficientsOf(hcc_components \o edf.components, <<>>),
                   hcc_score |-> hcc_score,
                   raw_rxcs |-> sorted(st.raw_rxcs),
                   rxcs_after_hierarchy |-> sorted(st.rxcs_after_hierarchy),
                   rxc_coefficients |-> CoefficientsOf(rxc_components, <<>>),
                   rxc_score |-> rxc_score,
                   model_year |-> model_year]]

\* ACACalculator.score(member, prediction_year).  hcc_order, group_order and
\* rxc_order are the orders in which the three sets happen to be iterated.
score(member_, prediction_year, hcc_order, group_order, rxc_order) ==
    LET st == ScoreSteps(member_, prediction_year)
    IN  ScoreOutputOf(member_, st,
                      HccComponents(hcc_order, st, member_)
                          \o GroupComponents(group_order, st, member_),
                      EnrollmentDurationFactor(st, member_),
                      RxcComponents(rxc_order, st, member_))

\* the orders in which one score() call may iterate its three sets
MemberOrders(member_, prediction_year) ==
    LET st == ScoreSteps(member_, prediction_year)
    IN  {[hcc_order |-> h, group_order |-> g, rxc_order |-> r] :
            h \in Orderings(st.remaining_hccs),
            g \in Orderings(st.triggered_groups),
            r \in Orderings(st.rxcs_after_hierarchy)}

\* the score() calls of a batch, one for each member in order; orders[i] are
\* the iteration orders of the i-th call
ScoreEach(members_, prediction_year, orders) ==
    [i \in DOMAIN members_ |->
        score(members_[i], prediction_year, orders[i].hcc_order, orders[i].group_order,
              orders[i].rxc_order)]

\* mutant: a member whose scoring raises is skipped
ListOfScored_skip_failed(scored) ==
    [returned |-> SelectSeq(scored, LAMBDA r : ~Raised(r))]

\* the list comprehension of score_batch: the first score() call that raises
\* ends it with that exception, otherwise it is the list of the results
ListOfScored(scored) ==
    LET failed == {i \in DOMAIN scored : Raised(scored[i])}
    IN  IF failed # {} THEN scored[CHOOSE i \in failed : \A j \in failed : i <= j]
        ELSE [returned |-> scored]

\* ACACalculator.score_batch(members, prediction_year)
score_batch(members_, prediction_year, orders) ==
    ListOfScored(ScoreEach(members_, prediction_year, orders))

(***************************************************************************)
(* The calls the model makes: bounded sets of MemberInput arguments,       *)
(* prediction years, and hierarchy tables.                                 *)
(***************************************************************************)
\* birth years run from int(model_year) - OldestAge to int(model_year) + YearsUnborn
OldestAge == 64

YearsUnborn == 2

\* the prediction year a call may give: int(model_year) + PredictionOffset
PredictionOffset == 1

\* rows of a hierarchy table under test
MaxRows == 2

BirthYears == (int(model_year) - OldestAge)..(int(model_year) + YearsUnborn)

PredictionYears == {None, Some(int(model_year) + PredictionOffset)}

\* date_of_birth and gender alone: every default applies
DemographicArgs ==
    {[member_id |-> "D", date_of_birth |-> date(y, md[1], md[2]), gender |-> <<g>>] :
        y \in BirthYears, md \in {<<1, 1>>, <<12, 31>>}, g \in {"M", "F"}}

DiagnosisLists == {
    <<>>,
    <<<<"E", "1", "0", "1", "0">>>>,
    <<<<"E", "1", "1", ".", "6", "5">>, <<"E", "1", "1", "9">>>>,
    <<<<"K", "5", "0", "0", "0">>>>,
    <<<<"J", "9", "6", "0", "0">>>>,
    <<<<"F", "2", "0", "0">>>>,
    <<<<"k", "5", "0", ".", "0", "0">>, <<"J", "9", "6", "0", "0">>, <<"Z", "Z", "Z">>>>,
    <<<<"E", "1", "0", "1", "0">>, <<"K", "5", "0", "0", "0">>>>,
    <<<<"A", "0", "2", "1">>, <<"K", "5", "0", "0", "0">>, <<"F", "2", "0", "0">>>>}

NdcLists == {
    <<>>,
    <<<<"0", "0", "0", "0", "3", "1", "9", "6", "4", "0", "1">>>>,
    <<<<"0", "0", "0", "9", "-", "3", "7", "2", "0", "-", "1", "0", "1">>, <<"3", "1", "9", "6", "4", "0", "1">>>>,
    <<<<"0", "0", "0", "0", "3", "1", "9", "6", "4", "0", "1">>, <<"0", "0", "1", "6", "9", "4", "1", "3", "2", "1", "2">>>>}

MetalLevels == {silver, bronze, <<"G", "o", "l", "d">>, catastrophic}

\* an adult, a child and an infant with every field given
ClinicalArgs ==
    {[member_id |-> "C", date_of_birth |-> dob, gender |-> <<"F">>, metal_level |-> ml,
      enrollment_months |-> em, diagnoses |-> dx, ndc_codes |-> ndc] :
        dob \in {date(1980, 1, 1), date(2015, 6, 15), date(2024, 6, 1)},
        ml \in MetalLevels, em \in {1, 6, 7, 12},
        dx \in DiagnosisLists, ndc \in NdcLists}

\* calls that validation may refuse
ValidationArgs ==
    {[member_id |-> "V", date_of_birth |-> date(1980, 1, 1), gender |-> g] :
        g \in {<<"X">>, <<"m">>, <<"f">>, <<>>, <<"M", "F">>, <<"M", "\n">>, <<" ", "F">>}}
    \cup
    {[member_id |-> "V", date_of_birth |-> date(1980, 1, 1), gender |-> <<g>>,
      enrollment_months |-> em] : g \in {"M", "X"}, em \in {-1, 0, 1, 12, 13}}
    \cup
    {[member_id |-> "V", date_of_birth |-> date(1980, 1, 1), gender |-> <<"M">>,
      metal_level |-> ml] : ml \in {<<"t", "i", "n">>, <<>>, <<"S", "I", "L", "V", "E", "R">>}}
    \cup
    {[member_id |-> "V", date_of_birth |-> date(1980, 1, 1)],
     [member_id |-> "V", gender |-> <<"M">>],
     [date_of_birth |-> date(1980, 1, 1), gender |-> <<"M">>]}

MemberArgs == DemographicArgs \cup ClinicalArgs \cup ValidationArgs

\* the codes of the hierarchy tables under test
Codes == {<<"1", "9">>, <<"2", "0">>, <<"2", "1">>}

\* the non-empty lists without repetition over a set
Lists(S) == UNION {Orderings(T) : T \in SUBSET S \ {{}}}

\* the dicts of at most n rows with distinct dominant codes, in every row order
RECURSIVE Tables(_)
Tables(n) ==
    IF n = 0 THEN {<<>>}
    ELSE Tables(n - 1) \cup
         {Append(t, [key |-> k, value |-> v]) :
             t \in {u \in Tables(n - 1) : Len(u) = n - 1}, k \in Codes, v \in Lists(Codes)}

HierarchyTables == {t \in Tables(MaxRows) : \A i, j \in DOMAIN t : i # j => t[i].key # t[j].key}

(***************************************************************************)
(* The state machine.                                                      *)
(***************************************************************************)
\* no member built or scored yet
NoMember == args = None /\ member = None /\ call = None /\ out = None

\* the calculator's own hierarchy table, nothing resolved yet
NoHierarchy ==
    /\ hierarchies = _hierarchies
    /\ cc_set = {}
    /\ hcc_set = None
    /\ final_rxcs = None
    /\ hcc_again = None

\* ACACalculator.__init__: self._coefficients = load_coefficients(model_year)
NoLookup == coefficients = _coefficients /\ lookup = None

NoMapping == codes = <<>> /\ mapped = None

NoBatch == members = <<>> /\ results = None

NoLoads == _CACHE = <<>> /\ reads = 0 /\ loaded = None /\ calculator = None

NoRows == fetched = <<>> /\ options = None /\ converted = None /\ csv = None

\* ensure_prism_warehouse on a new database: every table empty
EmptyWarehouse ==
    [run_registry |-> <<>>, risk_scores |-> {}, decomposition_definitions |-> <<>>,
     decomposition_scenarios |-> <<>>, run_comparison |-> {}]

NoRuns == warehouse = EmptyWarehouse /\ asset_run = None

NoGroups == group_table = <<>> /\ group_in = {} /\ grouped = None

Init ==
    /\ args = None
    /\ member = None
    /\ call = None
    /\ out = None
    /\ hierarchies = _hierarchies
    /\ cc_set = {}
    /\ hcc_set = None
    /\ final_rxcs = None
    /\ hcc_again = None
    /\ NoLookup
    /\ NoMapping
    /\ NoBatch
    /\ NoLoads
    /\ NoRows
    /\ NoRuns
    /\ NoGroups

\* MemberInput(**kw).  One member is followed from its construction on: a
\* later construction overwrites all four variables, so it would start from
\* the same states as the first.
Construct(kw) ==
    /\ args = None
    /\ args' = Some(kw)
    /\ member' = Some(MemberInput(kw))
    /\ call' = None
    /\ out' = None
    /\ UNCHANGED <<hierVars, lookupVars, mapVars, batchVars, cacheVars, rowVars, runVars, groupVars>>

\* calculator.score(member, prediction_year) on the member last built
Score(prediction_year) ==
    /\ member # None
    /\ ~Raised(member[1])
    /\ LET st == ScoreSteps(member[1], prediction_year)
       IN  \E hcc_order \in Orderings(st.remaining_hccs),
              group_order \in Orderings(st.triggered_groups),
              rxc_order \in Orderings(st.rxcs_after_hierarchy) :
               out' = Some(score(member[1], prediction_year,
                                 hcc_order, group_order, rxc_order))
    /\ call' = Some([prediction_year |-> prediction_year])
    /\ UNCHANGED <<args, member>>
    /\ UNCHANGED <<hierVars, lookupVars, mapVars, batchVars, cacheVars, rowVars, runVars, groupVars>>

Next ==
    \/ \E kw \in MemberArgs : Construct(kw)
    \/ \E prediction_year \in PredictionYears : Score(prediction_year)

Spec == Init /\ [][Next]_vars

(***************************************************************************)
(* Hierarchy resolution as a function of its input set and its table.      *)
(***************************************************************************)
InitHier ==
    /\ args = None
    /\ member = None
    /\ call = None
    /\ out = None
    /\ hierarchies \in HierarchyTables
    /\ cc_set \in SUBSET Codes
    /\ hcc_set = None
    /\ final_rxcs = None
    /\ hcc_again = None
    /\ NoLookup
    /\ NoMapping
    /\ NoBatch
    /\ NoLoads
    /\ NoRows
    /\ NoRuns
    /\ NoGroups

\* apply_hierarchies(cc_set, model_year)
ApplyHierarchies ==
    /\ hcc_set = None
    /\ hcc_set' = Some(apply_hierarchies(cc_set, hierarchies))
    /\ UNCHANGED <<hierarchies, cc_set, final_rxcs, hcc_again>>
    /\ UNCHANGED <<scoreVars, lookupVars, mapVars, batchVars, cacheVars, rowVars, runVars, groupVars>>

\* calculator._apply_rxc_hierarchies(rxcs), the table being self._rxc_hierarchies
ApplyRxcHierarchies ==
    /\ final_rxcs = None
    /\ final_rxcs' = Some(_apply_rxc_hierarchies(cc_set, hierarchies))
    /\ UNCHANGED <<hierarchies, cc_set, hcc_set, hcc_again>>
    /\ UNCHANGED <<scoreVars, lookupVars, mapVars, batchVars, cacheVars, rowVars, runVars, groupVars>>

\* apply_hierarchies on the result of apply_hierarchies
ApplyHierarchiesAgain ==
    /\ hcc_set # None
    /\ hcc_again = None
    /\ hcc_again' = Some(apply_hierarchies(hcc_set[1], hierarchies))
    /\ UNCHANGED <<hierarchies, cc_set, hcc_set, final_rxcs>>
    /\ UNCHANGED <<scoreVars, lookupVars, mapVars, batchVars, cacheVars, rowVars, runVars, groupVars>>

NextHier == ApplyHierarchies \/ ApplyRxcHierarchies \/ ApplyHierarchiesAgain

SpecHier == InitHier /\ [][NextHier]_vars

(***************************************************************************)
(* The coefficient lookup as a function of its three arguments.            *)
(***************************************************************************)
LookupModels == {"Adult", "Child", "Infant", "Senior"}

LookupVariables == {
    <<"M", "AGE_LAST_21_24">>, <<"F", "AGE_LAST_5_9">>,
    HHS_HCC(<<"0", "1", "9">>), HHS_HCC(<<"9", "9", "9">>), HHS_HCC(<<"1", "2", "7">>),
    HCC_ED(<<"1">>), HCC_ED(<<"7">>), RXC_(<<"0", "9">>), <<"G", "0", "1">>, <<"9">>, <<>>}

LookupMetalLevels ==
    MetalLevels \cup {platinum, gold, <<"S", "I", "L", "V", "E", "R">>, <<"t", "i", "n">>, <<>>}

\* calculator._get_coefficient(model, variable, metal_level)
GetCoefficient(model, variable, metal_level) ==
    /\ lookup' = Some([model |-> model, variable |-> variable, metal_level |-> metal_level,
                       result |-> _get_coefficient(model, variable, metal_level)])
    /\ UNCHANGED coefficients
    /\ UNCHANGED <<scoreVars, hierVars, mapVars, batchVars, cacheVars, rowVars, runVars, groupVars>>

NextLookup ==
    \E model \in LookupModels, variable \in LookupVariables, metal_level \in LookupMetalLevels :
        GetCoefficient(model, variable, metal_level)

SpecLookup == Init /\ [][NextLookup]_vars

(***************************************************************************)
(* The two mapping steps as functions of the list of codes they are given. *)
(***************************************************************************)
\* codes in a list handed to a mapping step
MaxCodes == 2

DxCodes == {
    <<"E", "1", "1", "6", "5">>,
    <<"e", "1", "1", ".", "6", "5">>,
    <<"E", "1", "1", "6", "5", "X">>,
    <<"E", "1", "1", "6", "9", "0", "1">>,
    <<"E", "1", "1">>,
    <<"F", "2", "0", ".", "0", "1", "2", "3">>,
    <<"K", "5", "0", "0", "0">>,
    <<"Z", "Z", "Z">>,
    <<"E", "1">>,
    <<>>}

NdcCodes == {
    <<"0", "0", "0", "0", "3", "1", "9", "6", "4", "0", "1">>,
    <<"0", "0", "0", "0", "3", "-", "1", "9", "6", "4", "-", "0", "1">>,
    <<"3", "1", "9", "6", "4", "0", "1">>,
    <<" ", "3", "1", "9", "6", "-", "4", "0", "1", "\n">>,
    <<"9", "3", "7", "2", "0", "1", "0", "1">>,
    <<"5", "0", "2", "4", "2", "0", "0", "4", "0", "6", "2">>,
    <<"3", "1", "9", "6", " ", "4", "0", "1">>,
    <<"A", "B", "C">>,
    <<>>}

\* the lists of at most n codes of S, repetitions included
CodeLists(S, n) == UNION {[1..k -> S] : k \in 0..n}

InitMap ==
    /\ NoMember
    /\ NoHierarchy
    /\ NoLookup
    /\ codes \in CodeLists(DxCodes, MaxCodes) \cup CodeLists(NdcCodes, MaxCodes)
    /\ mapped = None
    /\ NoBatch
    /\ NoLoads
    /\ NoRows
    /\ NoRuns
    /\ NoGroups

\* calculator._map_diagnoses_to_ccs(codes)
MapDiagnoses ==
    /\ mapped = None
    /\ mapped' = Some([step |-> "_map_diagnoses_to_ccs",
                       result |-> _map_diagnoses_to_ccs(codes)])
    /\ UNCHANGED codes
    /\ UNCHANGED <<scoreVars, hierVars, lookupVars, batchVars, cacheVars, rowVars, runVars, groupVars>>

\* calculator._map_ndcs_to_rxcs(codes)
MapNdcs ==
    /\ mapped = None
    /\ mapped' = Some([step |-> "_map_ndcs_to_rxcs", result |-> _map_ndcs_to_rxcs(codes)])
    /\ UNCHANGED codes
    /\ UNCHANGED <<scoreVars, hierVars, lookupVars, batchVars, cacheVars, rowVars, runVars, groupVars>>

NextMap == MapDiagnoses \/ MapNdcs

SpecMap == InitMap /\ [][NextMap]_vars

(***************************************************************************)
(* score_batch on a list of members.                                       *)
(***************************************************************************)
\* members in a batch
MaxBatch == 2

BatchArgs == {
    [member_id |-> "B000", date_of_birth |-> date(1970, 1, 1), gender |-> <<"M">>,
     diagnoses |-> <<>>],
    [member_id |-> "EDF001", date_of_birth |-> date(1980, 1, 1), gender |-> <<"F">>,
     metal_level |-> bronze, enrollment_months |-> 6,
     diagnoses |-> <<<<"K", "5", "0", "0", "0">>>>],
    [member_id |-> "B002", date_of_birth |-> date(1980, 1, 1), gender |-> <<"F">>,
     diagnoses |-> <<<<"E", "1", "0", "1", "0">>, <<"K", "5", "0", "0", "0">>>>,
     ndc_codes |-> <<<<"0", "0", "0", "0", "3", "1", "9", "6", "4", "0", "1">>>>],
    [member_id |-> "B003", date_of_birth |-> date(2015, 6, 15), gender |-> <<"M">>,
     diagnoses |-> <<<<"E", "1", "0", "1", "0">>>>],
    [member_id |-> "B004", date_of_birth |-> date(2024, 6, 1), gender |-> <<"F">>,
     diagnoses |-> <<<<"J", "9", "6", "0", "0">>>>],
    [member_id |-> "B005", date_of_birth |-> date(1960, 1, 1), gender |-> <<"M">>,
     metal_level |-> gold, diagnoses |-> <<<<"J", "9", "6", "0", "0">>>>]}

BatchMembers == {MemberInput(kw) : kw \in BatchArgs}

\* the sequences of iteration orders, one for each member of a batch
RECURSIVE BatchOrders(_, _)
BatchOrders(members_, prediction_year) ==
    IF members_ = <<>> THEN {<<>>}
    ELSE {<<o>> \o rest : o \in MemberOrders(Head(members_), prediction_year),
                          rest \in BatchOrders(Tail(members_), prediction_year)}

InitBatch ==
    /\ NoMember
    /\ NoHierarchy
    /\ NoLookup
    /\ NoMapping
    /\ NoLoads
    /\ NoRows
    /\ NoRuns
    /\ NoGroups
    /\ members \in CodeLists(BatchMembers, MaxBatch)
    /\ results = None

\* calculator.score_batch(members, prediction_year)
ScoreBatch(prediction_year) ==
    /\ results = None
    /\ \E orders \in BatchOrders(members, prediction_year) :
           results' = Some(score_batch(members, prediction_year, orders))
    /\ call' = Some([prediction_year |-> prediction_year])
    /\ UNCHANGED <<args, member, out, members>>
    /\ UNCHANGED <<hierVars, lookupVars, mapVars, cacheVars, rowVars, runVars, groupVars>>

NextBatch == \E prediction_year \in PredictionYears : ScoreBatch(prediction_year)

SpecBatch == InitBatch /\ [][NextBatch]_vars

(***************************************************************************)
(* Claims.                                                                 *)
(***************************************************************************)
\* the last score() call returned a ScoreOutput
Returned == out # None /\ ~Raised(out[1])

\* the benefit year of the last score() call
BenefitYear ==
    IF call[1].prediction_year # None THEN call[1].prediction_year[1] ELSE 2024

ComponentsOfType(components, type) ==
    SelectSeq(components, LAMBDA c : c.component_type = type)

\* C1: for an Adult member with enrollment_months n in 1..6, hcc_cnt > 0 and a
\* non-zero coefficient HCC_EDn at the member's metal level, score() returns a
\* ScoreOutput with edf_variable = HCC_EDn, edf_factor = that coefficient,
\* hcc_score including it, and exactly one edf component, of code HCC_EDn.
C1_EdfApplied ==
    out # None =>
        LET m == member[1]
            st == ScoreSteps(m, call[1].prediction_year)
            n == m.enrollment_months
            coef == _get_coefficient("Adult", HCC_ED(str(n)), m.metal_level)
        IN  (st.model = "Adult" /\ n \in 1..6 /\ st.hcc_cnt > 0 /\ coef # 0) =>
                /\ ~Raised(out[1])
                /\ out[1].details.edf_variable = Some(HCC_ED(str(n)))
                /\ out[1].details.edf_factor = coef
                /\ out[1].details.hcc_score =
                       coef + SumCoefficients(ComponentsOfType(out[1].components, "hcc"))
                            + SumCoefficients(ComponentsOfType(out[1].components, "hcc_group"))
                /\ Len(ComponentsOfType(out[1].components, "edf")) = 1
                /\ ComponentsOfType(out[1].components, "edf")[1].component_code
                       = HCC_ED(str(n))

\* C2: score() on a constructed MemberInput never raises: it always returns a
\* ScoreOutput, whatever codes, metal level and enrollment months the member has.
C2_ScoreNeverRaises == out # None => ~Raised(out[1])

\* a group member as the rule text writes it (HHS_HCCnnn) names the condition
\* category whose coefficient variable is HHS_HCCnnn
NamesCc(group_hcc, cc) == HHS_HCC(group_hcc) = HccVarName(cc)

GroupNamesCc(group_hccs, cc) == \E i \in DOMAIN group_hccs : NamesCc(group_hccs[i], cc)

\* C3: Adult and Child: when a condition category that a group definition names
\* as a member survives hierarchy and exclusion, the group is triggered and no
\* member of that group is in remaining_hccs or in the individual part of
\* hcc_list.
C3_GroupingMutualExclusion ==
    (Returned /\ out[1].details.model \in {"Adult", "Child"}) =>
        LET d == out[1].details
            groups == load_hcc_groups(d.model)
            individual == SubSeq(out[1].hcc_list, 1, Len(d.remaining_hccs))
        IN  \A g \in DOMAIN groups :
                (\E cc \in Range(d.hccs_filtered) : GroupNamesCc(groups[g].value, cc)) =>
                    /\ groups[g].key \in Range(d.triggered_groups)
                    /\ \A cc \in Range(d.remaining_hccs) \cup Range(individual) :
                           ~GroupNamesCc(groups[g].value, cc)

\* the codes a code supersedes, directly or through others, in at most n steps
RECURSIVE Below(_, _, _)
Below(table, c, n) ==
    IF n = 0 THEN {}
    ELSE LET direct == UNION {Range(table[i].value) : i \in {j \in DOMAIN table : table[j].key = c}}
         IN  direct \cup UNION {Below(table, s, n - 1) : s \in direct}

Acyclic(table) == \A c \in Codes : c \notin Below(table, c, Cardinality(Codes))

\* the same dict with its rows in another order
RowOrders(table) == Orderings(Range(table))

\* C4: for every input set and every acyclic hierarchy, transitively closed or
\* not, hierarchy resolution (CC and RXC) gives the same set whatever the order
\* in which the dominant codes are processed.
C4_OrderIndependent ==
    Acyclic(hierarchies) =>
        /\ hcc_set # None =>
               \A t \in RowOrders(hierarchies) : apply_hierarchies(cc_set, t) = hcc_set[1]
        /\ final_rxcs # None =>
               \A t \in RowOrders(hierarchies) :
                   _apply_rxc_hierarchies(cc_set, t) = final_rxcs[1]

\* the codes superseded by a dominant code that is in the input set
SupersededByPresent(table, input) ==
    {s \in Codes : \E i \in DOMAIN table : table[i].key \in input /\ s \in Range(table[i].value)}

\* C5: for an acyclic hierarchy the result of hierarchy resolution (CC and RXC)
\* is the input set minus every code superseded by a dominant code of the input.
C5_ResultIsInputMinusSuperseded ==
    Acyclic(hierarchies) =>
        /\ hcc_set # None => hcc_set[1] = cc_set \ SupersededByPresent(hierarchies, cc_set)
        /\ final_rxcs # None =>
               final_rxcs[1] = cc_set \ SupersededByPresent(hierarchies, cc_set)

\* C6: hierarchy resolution is idempotent: apply_hierarchies applied to its own
\* result returns that result, for every input set and hierarchy.
C6_Idempotent == hcc_again # None => hcc_again[1] = hcc_set[1]

\* a dominant code of the input removed two codes, and the result was resolved again
C6_Witness ==
    /\ hcc_again # None
    /\ Cardinality(cc_set \ hcc_set[1]) = 2
    /\ hcc_set[1] # {}

\* C7: age >= 21 gives Adult, 2..20 Child, 0..1 Infant, and details.model of
\* every ScoreOutput is the model for details.age.
C7_ModelPartitionsAges ==
    Returned =>
        LET age == out[1].details.age
            model == out[1].details.model
        IN  /\ age >= 0
            /\ model = "Adult" <=> age >= 21
            /\ model = "Child" <=> (2 <= age /\ age <= 20)
            /\ model = "Infant" <=> (0 <= age /\ age <= 1)
            /\ age = 1 => model = "Infant"
            /\ age = 2 => model = "Child"
            /\ age = 20 => model = "Child"
            /\ age = 21 => model = "Adult"

\* a member aged exactly 21 was scored
C7_Witness == Returned /\ out[1].details.age = 21 /\ out[1].details.model = "Adult"

\* C8: details.age is max(0, benefit year - birth year), the benefit year being
\* prediction_year when given and int(model_year) = 2024 otherwise; it does not
\* depend on the birth month and day and is never negative.
C8_AgeAtBenefitYearEnd ==
    Returned =>
        LET years == BenefitYear - member[1].date_of_birth.year
        IN  /\ out[1].details.age = IF years > 0 THEN years ELSE 0
            /\ out[1].details.age >= 0

\* a member born on 31 December was scored with a prediction year given
C8_Witness ==
    /\ Returned
    /\ call[1].prediction_year # None
    /\ member[1].date_of_birth.month = 12
    /\ member[1].date_of_birth.day = 31
    /\ out[1].details.age = 1

\* the age bands of the three models; hi = -1 is the open band of age >= 60
Bands == <<
    [model |-> "Adult", lo |-> 21, hi |-> 24, name |-> "AGE_LAST_21_24"],
    [model |-> "Adult", lo |-> 25, hi |-> 29, name |-> "AGE_LAST_25_29"],
    [model |-> "Adult", lo |-> 30, hi |-> 34, name |-> "AGE_LAST_30_34"],
    [model |-> "Adult", lo |-> 35, hi |-> 39, name |-> "AGE_LAST_35_39"],
    [model |-> "Adult", lo |-> 40, hi |-> 44, name |-> "AGE_LAST_40_44"],
    [model |-> "Adult", lo |-> 45, hi |-> 49, name |-> "AGE_LAST_45_49"],
    [model |-> "Adult", lo |-> 50, hi |-> 54, name |-> "AGE_LAST_50_54"],
    [model |-> "Adult", lo |-> 55, hi |-> 59, name |-> "AGE_LAST_55_59"],
    [model |-> "Adult", lo |-> 60, hi |-> -1, name |-> "AGE_LAST_60_GT"],
    [model |-> "Child", lo |-> 2, hi |-> 4, name |-> "AGE_LAST_2_4"],
    [model |-> "Child", lo |-> 5, hi |-> 9, name |-> "AGE_LAST_5_9"],
    [model |-> "Child", lo |-> 10, hi |-> 14, name |-> "AGE_LAST_10_14"],
    [model |-> "Child", lo |-> 15, hi |-> 20, name |-> "AGE_LAST_15_20"],
    [model |-> "Infant", lo |-> 0, hi |-> 1, name |-> "AGE_LAST_0_1"]>>

InBand(b, age) == b.lo <= age /\ (b.hi = -1 \/ age <= b.hi)

\* C9: the demographic variable is {M|F}AGE_LAST_lo_hi for the unique band with
\* lo <= age <= hi, M for gender M and F for gender F, and the band belongs to
\* the selected model.
C9_DemographicBand ==
    Returned =>
        LET d == out[1].details
            hits == {i \in DOMAIN Bands : InBand(Bands[i], d.age)}
        IN  /\ Cardinality(hits) = 1
            /\ \A i \in hits :
                   /\ Bands[i].model = d.model
                   /\ d.demographic_variable =
                          <<IF d.gender = <<"M">> THEN "M" ELSE "F", Bands[i].name>>
            /\ d.gender \in {<<"M">>, <<"F">>}

\* a woman aged exactly 25, the first age of the second Adult band, was scored
C9_Witness ==
    /\ Returned
    /\ out[1].details.age = 25
    /\ out[1].details.demographic_variable = <<"F", "AGE_LAST_25_29">>

\* C10: MemberInput(...) fails with a validation error when gender is not
\* exactly M or F or when enrollment_months is outside 1..12; enrollment_months,
\* metal_level and diagnoses default to 12, silver and the empty list.
C10_MemberInputValidation ==
    args # None =>
        LET kw == args[1]
            m == member[1]
        IN  /\ (Given(kw, "gender") /\ kw.gender \notin {<<"M">>, <<"F">>}) =>
                   (Raised(m) /\ m.raised = "ValidationError")
            /\ (Given(kw, "enrollment_months") /\ kw.enrollment_months \notin 1..12) =>
                   (Raised(m) /\ m.raised = "ValidationError")
            /\ ~Raised(m) =>
                   /\ ~Given(kw, "enrollment_months") => m.enrollment_months = 12
                   /\ ~Given(kw, "metal_level") =>
                          m.metal_level = <<"s", "i", "l", "v", "e", "r">>
                   /\ ~Given(kw, "diagnoses") => m.diagnoses = <<>>

\* a call with gender M and enrollment_months = 13 was refused
C10_Witness ==
    /\ args # None
    /\ Given(args[1], "enrollment_months")
    /\ args[1].gender = <<"M">>
    /\ args[1].enrollment_months = 13
    /\ Raised(member[1])

\* the metal tiers the MemberInput docstring enumerates
MetalTiers == {platinum, gold, silver, bronze, catastrophic}

\* C11: MemberInput(...) fails when metal_level is not one of platinum, gold,
\* silver, bronze, catastrophic, so no score() call receives a member with an
\* unknown metal tier.
C11_MetalTierEnumerated ==
    /\ args # None =>
           ((Given(args[1], "metal_level") /\ args[1].metal_level \notin MetalTiers)
               => Raised(member[1]))
    /\ call # None => member[1].metal_level \in MetalTiers

\* the values the table holds for (model, variable) at the metal level in lower case
TableValues(table, model, variable, metal_level) ==
    {Get(table[i].value, lower(metal_level)) :
        i \in {r \in DOMAIN table : /\ table[r].key = <<model, variable>>
                                    /\ lower(metal_level) \in Keys(table[r].value)}}

\* C12: the coefficient lookup returns the table value when the (model,
\* variable) row exists and has the metal level, compared in lower case, and 0
\* otherwise; it always returns a number and leaves the table as it was.
C12_CoefficientLookupTotal ==
    lookup # None =>
        LET l == lookup[1]
            values == TableValues(coefficients, l.model, l.variable, l.metal_level)
        IN  /\ l.result \in Int
            /\ values = {} => l.result = 0
            /\ values # {} => values = {l.result}
            /\ coefficients = _coefficients

\* a row was looked up at a metal level written in mixed case, and found
C12_Witness ==
    /\ lookup # None
    /\ lookup[1].metal_level = <<"G", "o", "l", "d">>
    /\ lookup[1].model = "Adult"
    /\ lookup[1].variable = RXC_(<<"0", "9">>)
    /\ lookup[1].result = 1000

\* the first n characters of s, all of s when it is shorter
Take(s, n) == [i \in 1..(IF Len(s) < n THEN Len(s) ELSE n) |-> s[i]]

\* the values of the first of the candidate keys that the table has, if any
FirstEntry(table, candidates) ==
    LET hits == {i \in DOMAIN candidates : candidates[i] \in Keys(table)}
    IN  IF hits = {} THEN {}
        ELSE Range(Get(table, candidates[CHOOSE i \in hits : \A j \in hits : i <= j]))

\* what the claim has one diagnosis code contribute
DiagnosisContribution(dx) ==
    LET clean == upper(SelectSeq(dx, LAMBDA c : c # "."))
    IN  FirstEntry(_icd_to_cc,
                   <<clean, Take(clean, 6), Take(clean, 5), Take(clean, 4), Take(clean, 3)>>)

\* C13: each diagnosis code, dots removed and upper-cased, contributes the CCs
\* of its exact table entry, else those of the first entry among its prefixes of
\* length 6, 5, 4, 3, else none; the result is the union over the codes, the
\* same for the codes in any order and without their repetitions.
C13_DiagnosisMapping ==
    (mapped # None /\ mapped[1].step = "_map_diagnoses_to_ccs") =>
        /\ mapped[1].result =
               {NormalizeCc(cc) :
                   cc \in UNION {DiagnosisContribution(codes[i]) : i \in DOMAIN codes}}
        /\ \A other \in Orderings(Range(codes)) :
               _map_diagnoses_to_ccs(other) = mapped[1].result

\* a code matched by its prefix of length 5 only, next to a code matching nothing
C13_Witness ==
    /\ mapped # None
    /\ mapped[1].step = "_map_diagnoses_to_ccs"
    /\ codes = <<<<"Z", "Z", "Z">>, <<"E", "1", "1", "6", "5", "X">>>>
    /\ mapped[1].result = {<<"2", "0">>}

\* what the claim has one NDC code contribute
NdcContribution(ndc) ==
    LET clean == strip(SelectSeq(ndc, LAMBDA c : c # "-"))
        padded == Zeros(11 - Len(clean)) \o clean
    IN  IF clean \in Keys(_ndc_to_rxc) THEN Range(Get(_ndc_to_rxc, clean))
        ELSE IF /\ clean # <<>>
                /\ \A i \in DOMAIN clean : clean[i] \in Digits
                /\ Len(clean) < 11
                /\ padded \in Keys(_ndc_to_rxc)
             THEN Range(Get(_ndc_to_rxc, padded))
             ELSE {}

\* C14: each NDC code, dashes and surrounding whitespace stripped, contributes
\* the RXCs of its exact table entry; when that misses and the code is all
\* digits and shorter than 11, those of the entry of the code left-padded with
\* zeros to 11 digits; otherwise nothing.  The result is the union over the codes.
C14_NdcMapping ==
    (mapped # None /\ mapped[1].step = "_map_ndcs_to_rxcs") =>
        mapped[1].result = UNION {NdcContribution(codes[i]) : i \in DOMAIN codes}

\* a short code with a dash and surrounding whitespace was found by padding
C14_Witness ==
    /\ mapped # None
    /\ mapped[1].step = "_map_ndcs_to_rxcs"
    /\ codes = <<<<" ", "3", "1", "9", "6", "-", "4", "0", "1", "\n">>>>
    /\ mapped[1].result = {<<"1">>}

PadLeft(s, w) == IF Len(s) >= w THEN s ELSE [i \in 1..(w - Len(s)) |-> "0"] \o s

\* the candidate variables of an RXC, in the order the claim gives
CandidatesInOrder(rxc) ==
    <<<<"RXC_">> \o PadLeft(rxc, 2), <<"RXC_">> \o PadLeft(rxc, 3), <<"RXC_">> \o rxc, rxc>>

\* the first candidate of an RXC with a non-zero coefficient: <<variable,
\* coefficient>>, or the empty sequence when there is none
FirstChoice(rxc, model, metal_level) ==
    LET candidates == CandidatesInOrder(rxc)
        hits == {i \in DOMAIN candidates :
                    _get_coefficient(model, candidates[i], metal_level) # 0}
        first == CHOOSE i \in hits : \A j \in hits : i <= j
    IN  IF hits = {} THEN <<>>
        ELSE <<candidates[first], _get_coefficient(model, candidates[first], metal_level)>>

RECURSIVE SeqSum(_)
SeqSum(numbers) == IF numbers = <<>> THEN 0 ELSE Head(numbers) + SeqSum(Tail(numbers))

\* the sum of the first-choice coefficients of a list of RXCs
RxcSum(rxcs, model, metal_level) ==
    SeqSum([i \in DOMAIN rxcs |->
               LET choice == FirstChoice(rxcs[i], model, metal_level)
               IN  IF choice = <<>> THEN 0 ELSE choice[2]])

\* C16: the RXCs scored are those the RXC hierarchy leaves of the mapped NDCs,
\* with no exclusion or grouping; each contributes the coefficient of its first
\* candidate variable (RXC_ 2-digit, RXC_ 3-digit, RXC_ raw, raw) with a
\* non-zero coefficient, as one component; one without such a candidate
\* contributes 0 and no component.
C16_RxcFirstNonZeroCandidate ==
    Returned =>
        LET d == out[1].details
            comps == ComponentsOfType(out[1].components, "rxc")
            surviving == Range(d.rxcs_after_hierarchy)
            scored == {rxc \in surviving : FirstChoice(rxc, d.model, d.metal_level) # <<>>}
        IN  /\ surviving = _apply_rxc_hierarchies(_map_ndcs_to_rxcs(member[1].ndc_codes),
                                                  _rxc_hierarchies)
            /\ Len(comps) = Cardinality(scored)
            /\ \A rxc \in scored :
                   \E i \in DOMAIN comps :
                       <<comps[i].component_code, comps[i].coefficient>>
                           = FirstChoice(rxc, d.model, d.metal_level)
            /\ d.rxc_score = RxcSum(d.rxcs_after_hierarchy, d.model, d.metal_level)

\* RXC 9 scored at bronze, where RXC_09 and RXC_009 both have a coefficient
C16_Witness ==
    /\ Returned
    /\ out[1].details.metal_level = bronze
    /\ out[1].details.rxcs_after_hierarchy = <<<<"9">>>>
    /\ out[1].details.rxc_score = 800

\* C17: in every ScoreOutput risk_score = demographic_factor + hcc_score +
\* rxc_score, hcc_score being the sum of the coefficients of the remaining
\* HCCs, of the triggered groups and of the EDF, and rxc_score that of the
\* surviving RXCs.
C17_RiskScoreIsSum ==
    Returned =>
        LET d == out[1].details
            coef(variable) == _get_coefficient(d.model, variable, d.metal_level)
        IN  /\ out[1].risk_score = d.demographic_factor + d.hcc_score + d.rxc_score
            /\ d.hcc_score =
                   SeqSum([i \in DOMAIN d.remaining_hccs |->
                              coef(HccVarName(d.remaining_hccs[i]))])
                   + SeqSum([i \in DOMAIN d.triggered_groups |-> coef(d.triggered_groups[i])])
                   + d.edf_factor
            /\ d.rxc_score = RxcSum(d.rxcs_after_hierarchy, d.model, d.metal_level)

\* a member with an individual HCC, a triggered group and an RXC was scored
C17_Witness ==
    /\ Returned
    /\ out[1].details.remaining_hccs # <<>>
    /\ out[1].details.triggered_groups # <<>>
    /\ out[1].details.rxc_score > 0
    /\ out[1].details.demographic_factor > 0
    /\ out[1].risk_score > out[1].details.hcc_score

\* C18: a member with no diagnoses and no NDC codes gets hcc_score = 0,
\* rxc_score = 0, hcc_list = [] and risk_score = demographic_factor, whatever
\* the age, gender, metal level and enrollment months.
C18_EmptyMemberScoresDemographicOnly ==
    (out # None /\ member[1].diagnoses = <<>> /\ member[1].ndc_codes = <<>>) =>
        /\ ~Raised(out[1])
        /\ out[1].details.hcc_score = 0
        /\ out[1].details.rxc_score = 0
        /\ out[1].hcc_list = <<>>
        /\ out[1].risk_score = out[1].details.demographic_factor

\* an Adult enrolled 6 months with no codes was scored, its factor not zero
C18_Witness ==
    /\ Returned
    /\ member[1].diagnoses = <<>>
    /\ member[1].ndc_codes = <<>>
    /\ out[1].details.model = "Adult"
    /\ out[1].details.enrollment_months = 6
    /\ out[1].risk_score = 240

\* what score() may return for one member scored alone
ScoresAlone(member_, prediction_year) ==
    {score(member_, prediction_year, o.hcc_order, o.group_order, o.rxc_order) :
        o \in MemberOrders(member_, prediction_year)}

\* the i-th result is the i-th member's: its member_id, and a ScoreOutput that
\* score() returns for that member alone
ResultsMatchMembers(returned) ==
    /\ Len(returned) = Len(members)
    /\ \A i \in DOMAIN returned :
           /\ ~Raised(returned[i])
           /\ returned[i].member_id = members[i].member_id
           /\ returned[i] \in ScoresAlone(members[i], call[1].prediction_year)

\* C19: score_batch returns a list as long as its input whose i-th element is
\* the score of the i-th member, with the member_ids in the input's order,
\* whatever the members' diagnoses are, each equal to what score() returns for
\* that member alone.
C19_BatchPreservesOrder ==
    results # None =>
        /\ ~Raised(results[1])
        /\ ResultsMatchMembers(results[1].returned)

\* C20: score_batch either returns exactly one ScoreOutput for every member, in
\* order and each the member's own score, or raises; it raises whenever the
\* scoring of one of its members does.
C20_BatchNeverPartiallyFails ==
    results # None =>
        /\ Raised(results[1]) \/ ResultsMatchMembers(results[1].returned)
        /\ (\E i \in DOMAIN members :
                \E r \in ScoresAlone(members[i], call[1].prediction_year) : Raised(r))
               => Raised(results[1])

\* a batch of two raised on its second member, the first having a score
C20_Witness ==
    /\ results # None
    /\ Raised(results[1])
    /\ Len(members) = 2
    /\ \A r \in ScoresAlone(members[1], call[1].prediction_year) : ~Raised(r)

(***************************************************************************)
(* Determinism of score().                                                 *)
(***************************************************************************)
\* dict.__eq__: the same items, whatever their insertion order
SameDict(d1, d2) == Range(d1) = Range(d2)

\* two details dicts are equal
SameDetails(d1, d2) ==
    /\ [d1 EXCEPT !.hcc_coefficients = <<>>, !.rxc_coefficients = <<>>]
           = [d2 EXCEPT !.hcc_coefficients = <<>>, !.rxc_coefficients = <<>>]
    /\ SameDict(d1.hcc_coefficients, d2.hcc_coefficients)
    /\ SameDict(d1.rxc_coefficients, d2.rxc_coefficients)

\* two calls did the same: both raised, or both returned the same risk_score,
\* hcc_list and details and the same set of components
SameScoreOutput(a, b) ==
    IF Raised(a) \/ Raised(b) THEN a = b
    ELSE /\ a.member_id = b.member_id
         /\ a.risk_score = b.risk_score
         /\ a.hcc_list = b.hcc_list
         /\ SameDetails(a.details, b.details)
         /\ Range(a.components) = Range(b.components)

\* the floats of two returned calls are the same bit for bit
SameFloats(a, b) ==
    (~Raised(a) /\ ~Raised(b)) => FloatScores(a.components) = FloatScores(b.components)

\* the last call against the same call with the sets iterated in every order
AgreesInEveryOrder(Same(_, _)) ==
    out # None =>
        \A o \in MemberOrders(member[1], call[1].prediction_year) :
            Same(out[1], score(member[1], call[1].prediction_year,
                               o.hcc_order, o.group_order, o.rxc_order))

\* C21: two score() calls with the same member, tables and prediction year
\* give the same risk_score (bit for bit), hcc_list, details and set of
\* components, whatever calls were made in between and in whatever order the
\* intermediate sets are iterated.
C21_ScoringDeterministic ==
    /\ AgreesInEveryOrder(SameScoreOutput)
    /\ AgreesInEveryOrder(SameFloats)

(***************************************************************************)
(* table_loader.py: the loaders and their cache.  What a loader parses     *)
(* from its file is a table object; a table object is named by the number  *)
(* of the file read that made it, so two objects are the same object       *)
(* exactly when they are equal.                                            *)
(***************************************************************************)
\* source reads the model follows
MaxReads == 2

\* DATA_DIR holds cy2024_diy_tables and cy2025_diy_tables
TableSets == {model_year, <<"2", "0", "2", "5">>}

\* the model years a caller may ask for
ModelYears == TableSets \cup {<<"2", "0", "2", "3">>}

\* the loaders of table_loader.py, each named by the literal piece of its cache key
Loaders ==
    {"icd_to_cc_", "hierarchies_", "coefficients_", "groups_", "exclusions_",
     "ndc_to_rxc_", "rxc_hierarchies_"}

\* the model argument of a loader: load_hcc_groups alone has one
ModelsOf(loader) == IF loader = "groups_" THEN {"Adult", "Child"} ELSE {None}

\* f"icd_to_cc_{model_year}", ..., f"groups_{model_year}_{model}"
cache_key(loader, year, model) ==
    <<loader>> \o year \o (IF loader = "groups_" THEN <<"_", model>> ELSE <<>>)

_get_tables_dir(year) ==
    IF year \in TableSets
    THEN [returned |-> <<"cy">> \o year \o <<"_diy_tables">>]
    ELSE [raised |-> "FileNotFoundError"]

\* mutant: the loader reads its file without looking in the cache
load_without_lookup(loader, year, model, cache, n) ==
    LET key == cache_key(loader, year, model)
        tables_dir == _get_tables_dir(year)
        table == [id |-> n + 1, loader |-> loader, model_year |-> year, model |-> model]
    IN  IF Raised(tables_dir)
        THEN [result |-> tables_dir, cache |-> cache, reads |-> n]
        ELSE [result |-> [returned |-> table],
              cache |-> Put(cache, key, table),
              reads |-> n + 1]

\* mutant: a year without a table set gives an empty table, cached like any other
load_missing_as_empty(loader, year, model, cache, n) ==
    LET key == cache_key(loader, year, model)
        table == [id |-> n + 1, loader |-> loader, model_year |-> year, model |-> model]
    IN  IF key \in Keys(cache)
        THEN [result |-> [returned |-> Get(cache, key)], cache |-> cache, reads |-> n]
        ELSE [result |-> [returned |-> table],
              cache |-> Put(cache, key, table),
              reads |-> n + 1]

\* load_icd_to_cc, ..., load_rxc_hierarchies: one loader call against the
\* cache, n files having been read so far; what it did, the cache and the
\* number of files read after it
load(loader, year, model, cache, n) ==
    LET key == cache_key(loader, year, model)
        tables_dir == _get_tables_dir(year)
        table == [id |-> n + 1, loader |-> loader, model_year |-> year, model |-> model]
    IN  IF key \in Keys(cache)
        THEN [result |-> [returned |-> Get(cache, key)], cache |-> cache, reads |-> n]
        ELSE IF Raised(tables_dir)
        THEN [result |-> tables_dir, cache |-> cache, reads |-> n]
        ELSE [result |-> [returned |-> table],
              cache |-> Put(cache, key, table),
              reads |-> n + 1]

\* the loader calls of ACACalculator.__init__, in order; load_hcc_labels and
\* load_rxc_labels, the last two, are taken to cache as the other loaders do
InitLoaders ==
    <<"icd_to_cc_", "coefficients_", "exclusions_", "ndc_to_rxc_", "rxc_hierarchies_",
      "hcc_labels_", "rxc_labels_">>

\* the assignments of __init__ one after another; the first loader that
\* raises ends the construction
RECURSIVE LoadEach(_, _, _, _, _)
LoadEach(loaders, year, cache, n, tables) ==
    IF loaders = <<>>
    THEN [result |-> [returned |-> [model_year |-> year, tables |-> tables]],
          cache |-> cache, reads |-> n]
    ELSE LET l == load(Head(loaders), year, None, cache, n)
         IN  IF Raised(l.result) THEN l
             ELSE LoadEach(Tail(loaders), year, l.cache, l.reads,
                           Put(tables, Head(loaders), l.result.returned))

\* ACACalculator(model_year)
__init__(year, cache, n) == LoadEach(InitLoaders, year, cache, n, <<>>)

\* load_...(model_year) or load_hcc_groups(model_year, model)
Load(loader, year, model) ==
    /\ LET l == load(loader, year, model, _CACHE, reads)
       IN  /\ l.reads <= MaxReads
           /\ _CACHE' = l.cache
           /\ reads' = l.reads
           /\ loaded' = Some([loader |-> loader, model_year |-> year, model |-> model,
                              result |-> l.result])
    /\ calculator' = None
    /\ UNCHANGED <<scoreVars, hierVars, lookupVars, mapVars, batchVars, rowVars, runVars, groupVars>>

\* ACACalculator(model_year)
NewCalculator(year) ==
    /\ reads < MaxReads
    /\ LET c == __init__(year, _CACHE, reads)
       IN  /\ _CACHE' = c.cache
           /\ reads' = c.reads
           /\ calculator' = Some([model_year |-> year, result |-> c.result])
    /\ loaded' = None
    /\ UNCHANGED <<scoreVars, hierVars, lookupVars, mapVars, batchVars, rowVars, runVars, groupVars>>

\* clear_cache()
ClearCache ==
    /\ _CACHE' = <<>>
    /\ loaded' = None
    /\ calculator' = None
    /\ UNCHANGED reads
    /\ UNCHANGED <<scoreVars, hierVars, lookupVars, mapVars, batchVars, rowVars, runVars, groupVars>>

NextCache ==
    \/ \E loader \in Loaders, year \in ModelYears :
           \E model \in ModelsOf(loader) : Load(loader, year, model)
    \/ \E year \in ModelYears : NewCalculator(year)
    \/ ClearCache

SpecCache == Init /\ [][NextCache]_vars

\* the cache key of the loader call in loaded
LoadedKey == cache_key(loaded[1].loader, loaded[1].model_year, loaded[1].model)

\* C22: an entry of the cache stays the very same table until clear_cache
\* empties the cache, whatever is loaded in between; a loader call whose
\* key is cached returns the cached table and reads no file; clear_cache
\* leaves the whole cache empty; a successful loader call whose key is not
\* cached, as after clear_cache, reads its file and returns a new table.
C22_CachedUntilCleared ==
    [][/\ \A key \in Keys(_CACHE) :
             \/ loaded' = None /\ calculator' = None /\ _CACHE' = <<>>
             \/ key \in Keys(_CACHE') /\ Get(_CACHE', key) = Get(_CACHE, key)
       /\ loaded' # None /\ LoadedKey' \in Keys(_CACHE)
             => /\ loaded'[1].result = [returned |-> Get(_CACHE, LoadedKey')]
                /\ reads' = reads
       /\ loaded' = None /\ calculator' = None => _CACHE' = <<>>
       /\ loaded' # None /\ LoadedKey' \notin Keys(_CACHE) /\ ~Raised(loaded'[1].result)
             => /\ reads' = reads + 1
                /\ loaded'[1].result.returned.id = reads'
                /\ \A row \in Range(_CACHE) : row.value.id < reads'
                /\ Get(_CACHE', LoadedKey') = loaded'[1].result.returned]_vars

\* a loader call answered from the cache after another table was read
C22_Witness ==
    /\ loaded # None
    /\ ~Raised(loaded[1].result)
    /\ loaded[1].result.returned.id < reads
    /\ Len(_CACHE) > 1
    /\ Get(_CACHE, LoadedKey) = loaded[1].result.returned

\* a loader call that read its file a second time, after clear_cache
C22_RereadWitness ==
    /\ loaded # None
    /\ ~Raised(loaded[1].result)
    /\ loaded[1].result.returned.id = 2
    /\ Len(_CACHE) = 1

\* C23: a loader call for a model year without a table set raises
\* FileNotFoundError and leaves the cache as it was, at every call; a
\* calculator for such a year is not constructed, and a constructed
\* calculator holds every table of its year.
C23_NoTableSetFails ==
    [][/\ loaded' # None /\ loaded'[1].model_year \notin TableSets
             => /\ loaded'[1].result = [raised |-> "FileNotFoundError"]
                /\ _CACHE' = _CACHE
                /\ reads' = reads
       /\ calculator' # None /\ calculator'[1].model_year \notin TableSets
             => /\ calculator'[1].result = [raised |-> "FileNotFoundError"]
                /\ _CACHE' = _CACHE
                /\ reads' = reads
       /\ calculator' # None /\ ~Raised(calculator'[1].result)
             => /\ calculator'[1].model_year \in TableSets
                /\ Keys(calculator'[1].result.returned.tables) = Range(InitLoaders)
                /\ \A row \in Range(calculator'[1].result.returned.tables) :
                      row.value.model_year = calculator'[1].model_year]_vars

\* a calculator refused for a year without a table set while tables of
\* another year are cached
C23_Witness ==
    /\ calculator # None
    /\ calculator[1].model_year \notin TableSets
    /\ Raised(calculator[1].result)
    /\ _CACHE # <<>>

\* a loader call refused for a year without a table set while tables of
\* another year are cached
C23_LoadWitness ==
    /\ loaded # None
    /\ loaded[1].model_year \notin TableSets
    /\ Raised(loaded[1].result)
    /\ _CACHE # <<>>

(***************************************************************************)
(* member_processing.py and duckdb_to_csv.py: rows of the input relation   *)
(* converted to MemberInput objects, scored and written as CSV rows.  A    *)
(* row is the record of its seven columns; a NULL column is None, a text   *)
(* column Some(str), enrollment_months Some(int).                          *)
(***************************************************************************)
\* rows of the input relation the model converts
MaxFetched == 3

\* mutant: a value that does not normalize is passed on as it is
normalize_gender_as_given(value) ==
    IF value = None THEN None
    ELSE LET text == upper(strip(value[1]))
         IN  IF text \in {<<"M">>, <<"M", "A", "L", "E">>} THEN Some(<<"M">>)
             ELSE IF text \in {<<"F">>, <<"F", "E", "M", "A", "L", "E">>} THEN Some(<<"F">>)
             ELSE Some(text)

\* normalize_gender(value): Some("M"), Some("F") or None
normalize_gender(value) ==
    IF value = None THEN None
    ELSE LET text == upper(strip(value[1]))
         IN  IF text \in {<<"M">>, <<"M", "A", "L", "E">>} THEN Some(<<"M">>)
             ELSE IF text \in {<<"F">>, <<"F", "E", "M", "A", "L", "E">>} THEN Some(<<"F">>)
             ELSE None

\* coerce_str_list(value) for a list: the None elements dropped
coerce_str_list(value) == SelectSeq(value, LAMBDA x : x # None)

\* the keyword arguments of the MemberInput(...) call for one row
MemberKw(row, normalized_gender) ==
    [member_id |-> row.member_id,
     date_of_birth |-> row.date_of_birth,
     gender |-> normalized_gender,
     metal_level |-> IF row.metal_level # None THEN row.metal_level[1]
                     ELSE <<"s", "i", "l", "v", "e", "r">>,
     enrollment_months |-> IF row.enrollment_months # None THEN row.enrollment_months[1]
                           ELSE 12,
     diagnoses |-> coerce_str_list(row.diagnoses),
     ndc_codes |-> coerce_str_list(row.ndc_codes)]

\* invalid_gender_values[raw] = invalid_gender_values.get(raw, 0) + 1
CountInvalid(invalid_gender_values, gender) ==
    LET raw == IF gender = None THEN <<"<NULL>">> ELSE gender[1]
    IN  Put(invalid_gender_values, raw,
            IF raw \in Keys(invalid_gender_values)
            THEN Get(invalid_gender_values, raw) + 1 ELSE 1)

\* the loop of rows_to_member_inputs over the rows still to convert
RECURSIVE ConvertRows(_, _, _, _, _, _)
ConvertRows(todo, invalid_gender, coerce_gender, members_, skipped, invalid_gender_values) ==
    IF todo = <<>>
    THEN [returned |-> [members |-> members_,
                        stats |-> [skipped |-> skipped,
                                   invalid_gender_values |-> invalid_gender_values]]]
    ELSE LET row == Head(todo)
             normalized_gender == normalize_gender(row.gender)
         IN  IF normalized_gender = None /\ invalid_gender = "skip"
             THEN ConvertRows(Tail(todo), invalid_gender, coerce_gender, members_,
                              skipped + 1, CountInvalid(invalid_gender_values, row.gender))
             ELSE LET built == MemberInput(MemberKw(row,
                                   IF normalized_gender = None THEN coerce_gender[1]
                                   ELSE normalized_gender[1]))
                  IN  IF Raised(built) THEN built
                      ELSE ConvertRows(Tail(todo), invalid_gender, coerce_gender,
                                       Append(members_, built), skipped,
                                       IF normalized_gender = None
                                       THEN CountInvalid(invalid_gender_values, row.gender)
                                       ELSE invalid_gender_values)

\* rows_to_member_inputs(rows, invalid_gender=..., coerce_gender=...);
\* coerce_gender is Optional
rows_to_member_inputs(todo, invalid_gender, coerce_gender) ==
    IF invalid_gender \notin {"skip", "coerce"} THEN [raised |-> "ValueError"]
    ELSE IF invalid_gender = "coerce" /\ coerce_gender \notin {Some(<<"M">>), Some(<<"F">>)}
    THEN [raised |-> "ValueError"]
    ELSE ConvertRows(todo, invalid_gender, coerce_gender, <<>>, 0, <<>>)

\* writer.writerow({...}) for one scored member
CsvRow(member_, scored) ==
    [member_id |-> member_.member_id,
     age |-> scored.details.age,
     gender |-> member_.gender,
     metal_level |-> member_.metal_level,
     enrollment_months |-> member_.enrollment_months,
     risk_score |-> scored.risk_score,
     hcc_list |-> scored.hcc_list]

\* the loop of score_from_duckdb_to_csv over the members: the rows written
\* before the first score() call that raises, and that call's exception
WriteRows(members_, scored) ==
    LET failed == {i \in DOMAIN scored : Raised(scored[i])}
        first == IF failed = {} THEN Len(scored) + 1
                 ELSE CHOOSE i \in failed : \A j \in failed : i <= j
    IN  [result |-> IF failed = {} THEN [returned |-> Len(members_)] ELSE scored[first],
         file |-> Some([i \in 1..(first - 1) |-> CsvRow(members_[i], scored[i])])]

\* score_from_duckdb_to_csv(...) on the rows fetched, prediction_year None;
\* orders[i] are the iteration orders of the i-th score() call
score_from_duckdb_to_csv(todo, invalid_gender, coerce_gender, orders) ==
    LET made == rows_to_member_inputs(todo, invalid_gender, coerce_gender)
    IN  IF Raised(made) THEN [result |-> made, file |-> None]
        ELSE WriteRows(made.returned.members,
                       ScoreEach(made.returned.members, None, orders))

\* rows of int_aca_risk_input
FetchedRows == {
    [member_id |-> "GOOD", date_of_birth |-> date(1980, 1, 1), gender |-> Some(<<"F">>),
     metal_level |-> Some(silver), enrollment_months |-> Some(12),
     diagnoses |-> <<<<"E", "1", "0", "1", "0">>>>, ndc_codes |-> <<>>],
    [member_id |-> "BAD", date_of_birth |-> date(1980, 1, 1), gender |-> Some(<<"X">>),
     metal_level |-> Some(silver), enrollment_months |-> Some(12),
     diagnoses |-> <<>>, ndc_codes |-> <<>>],
    [member_id |-> "M1", date_of_birth |-> date(1970, 1, 1), gender |-> None,
     metal_level |-> None, enrollment_months |-> None,
     diagnoses |-> <<None, <<"K", "5", "0", "0", "0">>>>, ndc_codes |-> <<>>],
    [member_id |-> "M2", date_of_birth |-> date(2015, 1, 1),
     gender |-> Some(<<" ", "m", "a", "l", "e">>),
     metal_level |-> Some(silver), enrollment_months |-> Some(12),
     diagnoses |-> <<>>, ndc_codes |-> <<>>],
    [member_id |-> "PART", date_of_birth |-> date(1980, 1, 1), gender |-> Some(<<"f">>),
     metal_level |-> Some(bronze), enrollment_months |-> Some(6),
     diagnoses |-> <<<<"K", "5", "0", "0", "0">>>>, ndc_codes |-> <<>>],
    [member_id |-> "LONG", date_of_birth |-> date(1990, 1, 1), gender |-> Some(<<"M">>),
     metal_level |-> Some(gold), enrollment_months |-> Some(13),
     diagnoses |-> <<>>, ndc_codes |-> <<>>]}

\* invalid_gender and coerce_gender of a call
GenderOptions == {
    [invalid_gender |-> "skip", coerce_gender |-> None],
    [invalid_gender |-> "coerce", coerce_gender |-> Some(<<"M">>)],
    [invalid_gender |-> "coerce", coerce_gender |-> Some(<<"F">>)],
    [invalid_gender |-> "coerce", coerce_gender |-> None],
    [invalid_gender |-> "drop", coerce_gender |-> None]}

\* rows_to_member_inputs(rows, invalid_gender=..., coerce_gender=...)
RowsToMemberInputs(todo, opt) ==
    /\ options = None
    /\ fetched' = todo
    /\ options' = Some(opt)
    /\ converted' = Some(rows_to_member_inputs(todo, opt.invalid_gender, opt.coerce_gender))
    /\ csv' = None
    /\ UNCHANGED <<scoreVars, hierVars, lookupVars, mapVars, batchVars, cacheVars, runVars, groupVars>>

\* score_from_duckdb_to_csv(...), the rows fetched being todo
ScoreFromDuckdbToCsv(todo, opt) ==
    /\ options = None
    /\ fetched' = todo
    /\ options' = Some(opt)
    /\ LET made == rows_to_member_inputs(todo, opt.invalid_gender, opt.coerce_gender)
       IN  /\ converted' = Some(made)
           /\ \E orders \in (IF Raised(made) THEN {<<>>}
                              ELSE BatchOrders(made.returned.members, None)) :
                  csv' = Some(score_from_duckdb_to_csv(todo, opt.invalid_gender,
                                                       opt.coerce_gender, orders))
    /\ UNCHANGED <<scoreVars, hierVars, lookupVars, mapVars, batchVars, cacheVars, runVars, groupVars>>

NextRows ==
    \E todo \in CodeLists(FetchedRows, MaxFetched), opt \in GenderOptions :
        \/ RowsToMemberInputs(todo, opt)
        \/ ScoreFromDuckdbToCsv(todo, opt)

SpecRows == Init /\ [][NextRows]_vars

\* the indices of the rows fetched whose gender is M, MALE, F or FEMALE in
\* any case and with blanks around it
RowsWithGender ==
    {i \in DOMAIN fetched :
        /\ fetched[i].gender # None
        /\ upper(strip(fetched[i].gender[1])) \in
               {<<"M">>, <<"M", "A", "L", "E">>, <<"F">>, <<"F", "E", "M", "A", "L", "E">>}}

\* the subsequence of the rows fetched at the indices in kept
RECURSIVE RowsAt(_, _)
RowsAt(kept, i) ==
    IF i > Len(fetched) THEN <<>>
    ELSE (IF i \in kept THEN <<fetched[i]>> ELSE <<>>) \o RowsAt(kept, i + 1)

\* the conversion returned members for exactly the rows at the indices in
\* kept, in the order of the rows, and counted the others as skipped
MembersAreRows(kept) ==
    LET members_ == converted[1].returned.members
        from == RowsAt(kept, 1)
    IN  /\ Len(members_) = Len(from)
        /\ \A i \in DOMAIN members_ :
              /\ members_[i].member_id = from[i].member_id
              /\ members_[i].date_of_birth = from[i].date_of_birth
        /\ converted[1].returned.stats.skipped = Len(fetched) - Cardinality(kept)
        /\ Len(members_) + converted[1].returned.stats.skipped = Len(fetched)

\* what the claim says of rows_to_member_inputs alone
ConversionAccounted ==
    converted # None /\ ~Raised(converted[1]) =>
        /\ options[1].invalid_gender = "skip" => MembersAreRows(RowsWithGender)
        /\ options[1].invalid_gender = "coerce" =>
              /\ MembersAreRows(DOMAIN fetched)
              /\ \A i \in DOMAIN fetched \ RowsWithGender :
                    converted[1].returned.members[i].gender = options[1].coerce_gender[1]

\* C24: with invalid_gender = skip rows_to_member_inputs omits exactly the
\* rows whose gender does not normalize to M or F and counts them in
\* skipped; with coerce it omits no row and gives those rows coerce_gender;
\* the members keep the order of the rows and len(members) + skipped is the
\* number of rows; score_from_duckdb_to_csv writes one score row for every
\* member.
C24_RowsAccounted ==
    /\ ConversionAccounted
    /\ csv # None /\ converted # None /\ ~Raised(converted[1]) =>
          /\ csv[1].file # None
          /\ Len(csv[1].file[1]) = Len(converted[1].returned.members)
          /\ csv[1].result = [returned |-> Len(converted[1].returned.members)]

\* three rows converted with the middle one skipped
C24_SkipWitness ==
    /\ converted # None /\ ~Raised(converted[1])
    /\ options[1].invalid_gender = "skip"
    /\ Len(fetched) = 3
    /\ RowsWithGender = {1, 3}
    /\ fetched[1] # fetched[3]
    /\ ConversionAccounted

\* score rows written for fewer members than were converted
C24_FewerRowsWritten ==
    /\ csv # None /\ converted # None /\ ~Raised(converted[1])
    /\ csv[1].file # None
    /\ Len(csv[1].file[1]) < Len(converted[1].returned.members)

(***************************************************************************)
(* ra_dagster: the assets score_members_aca, compare_runs, decompose_runs  *)
(* and the run registry.  The warehouse is the record of its tables; a     *)
(* risk score and an impact value are exact, a score in thousandths and an *)
(* impact in thousandths divided by ImpactScale, which every member count  *)
(* of the model divides.                                                   *)
(***************************************************************************)
\* the run ids the model hands to an asset
MaxRuns == 2

ImpactScale == 2

\* the fields of the dataclass RunRecord, none of which has a default
RunRecordFields ==
    {"run_id", "run_timestamp", "group_id", "group_description", "run_description",
     "analysis_type", "calculator", "model_version", "benefit_year", "data_effective",
     "blueprint_yml", "git", "status", "trigger_source", "blueprint_id", "created_at",
     "updated_at"}

\* RunRecord(**kw): the generated __init__ takes exactly the fields
RunRecord(kw) ==
    IF DOMAIN kw = RunRecordFields THEN kw ELSE [raised |-> "TypeError"]

\* insert_run(con, record): run_id is the primary key of run_registry
insert_run(db, record) ==
    IF \E i \in DOMAIN db.run_registry : db.run_registry[i].run_id = record.run_id
    THEN [raised |-> "ConstraintException"]
    ELSE [db EXCEPT !.run_registry =
             Append(@, [run_id |-> record.run_id, status |-> record.status,
                        analysis_type |-> record.analysis_type])]

\* update_run_status(con, run_id=..., status=...)
update_run_status(db, run_id, status) ==
    [db EXCEPT !.run_registry =
        [i \in DOMAIN @ |-> IF @[i].run_id = run_id THEN [@[i] EXCEPT !.status = status]
                            ELSE @[i]]]

\* the except clause of score_members_aca and decompose_runs
MarkFailed(body, run_id) ==
    IF Raised(body.result)
    THEN [result |-> body.result, db |-> update_run_status(body.db, run_id, "failed")]
    ELSE body

\* the risk_score of a member in a run
ScoreOf(db, run_id, member_id) ==
    (CHOOSE r \in db.risk_scores : r.run_id = run_id /\ r.member_id = member_id).risk_score

MembersOf(db, run_id) == {r.member_id : r \in {q \in db.risk_scores : q.run_id = run_id}}

\* b.risk_score - a.risk_score of one member, COALESCE(..., 0.0) for the run
\* that has no row for the member
ScoreDiff(db, run_a, run_b, m) ==
    (IF m \in MembersOf(db, run_b) THEN ScoreOf(db, run_b, m) ELSE 0)
        - (IF m \in MembersOf(db, run_a) THEN ScoreOf(db, run_a, m) ELSE 0)

RECURSIVE SumDiff(_, _, _, _)
SumDiff(db, run_a, run_b, S) ==
    IF S = {} THEN 0
    ELSE LET m == CHOOSE y \in S : TRUE
         IN  ScoreDiff(db, run_a, run_b, m) + SumDiff(db, run_a, run_b, S \ {m})

\* calculate_impact(run_a, run_b, mode) for the metric given: SUM or AVG of
\* the member-level differences over the joined population, 0.0 when the
\* join is empty
calculate_impact(db, metric, run_a, run_b, mode) ==
    LET A == MembersOf(db, run_a)
        B == MembersOf(db, run_b)
        joined == IF mode = "intersection" THEN A \cap B
                  ELSE IF mode = "baseline_population" THEN A
                  ELSE B
        total == SumDiff(db, run_a, run_b, joined) * ImpactScale
    IN  IF mode \notin {"intersection", "baseline_population", "scenario_population"}
        THEN [raised |-> "ValueError"]
        ELSE IF joined = {} THEN [returned |-> 0]
        ELSE IF metric = "sum" THEN [returned |-> total]
        ELSE [returned |-> total \div Cardinality(joined)]

\* the loop of decompose_runs over the components: the scenarios rows and
\* sum_effects, or the exception of a calculate_impact call
RECURSIVE ComponentEffects(_, _, _, _, _, _, _)
ComponentEffects(db, analysis, batch_id, run_id_baseline, todo, previous_run_id, acc) ==
    IF todo = <<>> THEN [returned |-> [acc EXCEPT !.previous_run_id = previous_run_id]]
    ELSE LET comp == Head(todo)
             effect == calculate_impact(db, analysis.metric,
                           IF analysis.method = "sequential" THEN previous_run_id
                           ELSE run_id_baseline,
                           comp.run_id, analysis.population_mode)
         IN  IF Raised(effect) THEN effect
             ELSE ComponentEffects(db, analysis, batch_id, run_id_baseline, Tail(todo),
                      IF analysis.method = "sequential" THEN comp.run_id
                      ELSE previous_run_id,
                      [sum_effects |-> acc.sum_effects + effect.returned,
                       previous_run_id |-> previous_run_id,
                       definitions |-> Append(acc.definitions,
                           [batch_id |-> batch_id, step_index |-> Len(acc.definitions) + 1,
                            driver_name |-> comp.name]),
                       scenarios |-> Append(acc.scenarios,
                           [batch_id |-> batch_id, driver_name |-> comp.name,
                            impact_value |-> effect.returned, run_id |-> comp.run_id])])

\* the keyword arguments decompose_runs gives to RunRecord
DecompositionRecordKw(run_id) ==
    [run_id |-> run_id, run_timestamp |-> "run_ts", group_id |-> 1,
     group_description |-> None, run_description |-> "N-way decomposition",
     analysis_type |-> "decomposition", calculator |-> None, model_version |-> None,
     benefit_year |-> None, data_effective |-> None, launchpad_config |-> "config",
     blueprint_yml |-> "config", git |-> "git", status |-> "started",
     trigger_source |-> "dagster", blueprint_id |-> None, created_at |-> "now",
     updated_at |-> "now"]

\* sections 4 and 5 of decompose_runs, which run with run_id among the locals
DecomposeBody(db, analysis, components, run_id, run_id_baseline, run_id_actual) ==
    LET record == RunRecord(DecompositionRecordKw(run_id))
        inserted == insert_run(db, record)
        total_change == calculate_impact(inserted, analysis.metric, run_id_baseline,
                                         run_id_actual, analysis.population_mode)
        effects == ComponentEffects(inserted, analysis, run_id, run_id_baseline, components,
                       run_id_baseline,
                       [sum_effects |-> 0, previous_run_id |-> run_id_baseline,
                        definitions |-> <<>>, scenarios |-> <<>>])
        interaction_effect ==
            IF analysis.method = "sequential"
            THEN calculate_impact(inserted, analysis.metric, effects.returned.previous_run_id,
                                  run_id_actual, analysis.population_mode)
            ELSE [returned |-> total_change.returned - effects.returned.sum_effects]
        definitions == Append(effects.returned.definitions,
                           [batch_id |-> run_id, step_index |-> Len(components) + 1,
                            driver_name |-> "Interaction"])
    IN  IF Raised(record) THEN [result |-> record, db |-> db]
        ELSE IF Raised(inserted) THEN [result |-> inserted, db |-> db]
        ELSE IF Raised(total_change) THEN [result |-> total_change, db |-> inserted]
        ELSE IF Raised(effects) THEN [result |-> effects, db |-> inserted]
        ELSE IF Raised(interaction_effect) THEN [result |-> interaction_effect, db |-> inserted]
        ELSE [result |-> [returned |-> None],
              db |-> update_run_status(
                  [inserted EXCEPT
                      !.decomposition_definitions = @ \o definitions,
                      !.decomposition_scenarios = @ \o effects.returned.scenarios],
                  run_id, "success")]

\* decompose_runs(context, duckdb): config is context.op_config, run_id is
\* context.run_id
decompose_runs(db, config, run_id) ==
    LET scenarios == config.scenarios
        analysis == config.analysis
        run_id_baseline == IF analysis.baseline \in Keys(scenarios)
                           THEN Some(Get(scenarios, analysis.baseline)) ELSE None
        run_id_actual == IF analysis.actual \in Keys(scenarios)
                         THEN Some(Get(scenarios, analysis.actual)) ELSE None
        components == [i \in DOMAIN analysis.components |->
                          [name |-> analysis.components[i].name,
                           run_id |-> Get(scenarios, analysis.components[i].scenario)]]
    IN  IF run_id_baseline = None \/ run_id_actual = None
        THEN [result |-> [raised |-> "ValueError"], db |-> db]
        ELSE IF \E i \in DOMAIN analysis.components :
                    analysis.components[i].scenario \notin Keys(scenarios)
        THEN [result |-> [raised |-> "ValueError"], db |-> db]
        ELSE MarkFailed(DecomposeBody(db, analysis, components, run_id,
                                      run_id_baseline[1], run_id_actual[1]), run_id)

\* the keyword arguments compare_runs gives to RunRecord
ComparisonRecordKw(run_id) ==
    [run_id |-> run_id, run_timestamp |-> "run_ts", group_id |-> 1,
     group_description |-> None, run_description |-> "Compare runs",
     analysis_type |-> "comparison", calculator |-> None, model_version |-> None,
     benefit_year |-> None, data_effective |-> None, json_config |-> "config",
     git |-> "git", status |-> "started", trigger_source |-> "dagster",
     created_at |-> "now", updated_at |-> "now"]

\* the rows the INSERT ... SELECT of compare_runs writes: the full outer join
\* of the two runs on member_id
ComparisonRows(db, run_id_a, run_id_b) ==
    LET A == MembersOf(db, run_id_a)
        B == MembersOf(db, run_id_b)
    IN  {[run_id_a |-> run_id_a, run_id_b |-> run_id_b, member_id |-> m,
          match_status |-> IF m \in A /\ m \in B THEN "matched"
                           ELSE IF m \in A THEN "a_only" ELSE "b_only",
          score_diff |-> IF m \in A /\ m \in B
                         THEN Some(ScoreOf(db, run_id_b, m) - ScoreOf(db, run_id_a, m))
                         ELSE None] : m \in A \cup B}

\* compare_runs(context, duckdb): config holds run_id_a and run_id_b, each
\* Optional; run_id is what generate_run_id() gives
compare_runs(db, config, run_id) ==
    LET record == RunRecord(ComparisonRecordKw(run_id))
        inserted == insert_run(db, record)
    IN  IF config.run_id_a = None \/ config.run_id_b = None
        THEN [result |-> [raised |-> "ValueError"], db |-> db]
        ELSE IF Raised(record) THEN [result |-> record, db |-> db]
        ELSE IF Raised(inserted) THEN [result |-> inserted, db |-> db]
        ELSE [result |-> [returned |-> None],
              db |-> update_run_status(
                  [inserted EXCEPT !.run_comparison =
                      @ \cup ComparisonRows(inserted, config.run_id_a[1], config.run_id_b[1])],
                  run_id, "success")]

\* the keyword arguments score_members_aca gives to RunRecord
ScoringRecordKw(run_id) ==
    [run_id |-> run_id, run_timestamp |-> "run_ts", group_id |-> 1,
     group_description |-> None, run_description |-> None,
     analysis_type |-> "scoring", calculator |-> "aca_risk_score_calculator",
     model_version |-> "hhs_2024", benefit_year |-> 2024, launchpad_config |-> "config",
     blueprint_yml |-> "config", git |-> "git", status |-> "started",
     trigger_source |-> "dagster", blueprint_id |-> None, created_at |-> "now",
     updated_at |-> "now"]

\* flush_batch(out_rows): INSERT OR REPLACE on the key (run_id, member_id)
flush_batch(db, out_rows) ==
    [db EXCEPT !.risk_scores =
        {r \in @ : ~\E i \in DOMAIN out_rows :
                        out_rows[i].run_id = r.run_id /\ out_rows[i].member_id = r.member_id}
        \cup {out_rows[i] : i \in {j \in DOMAIN out_rows :
                    ~\E k \in DOMAIN out_rows :
                        k > j /\ out_rows[k].member_id = out_rows[j].member_id}}]

\* the loop of score_members_aca over the members and the final flush: no
\* row is written when a score() call raises, the batch size being 10000
ScoredRows(db, run_id, members_, scored) ==
    IF Raised(scored) THEN [result |-> scored, db |-> db]
    ELSE [result |-> [returned |-> None],
          db |-> update_run_status(
              flush_batch(db, [i \in DOMAIN members_ |->
                                  [run_id |-> run_id,
                                   member_id |-> members_[i].member_id,
                                   risk_score |-> scored.returned[i].risk_score]]),
              run_id, "success")]

\* the coerce_gender score_members_aca hands to rows_to_member_inputs
CoerceGenderOf(config) ==
    IF config.invalid_gender = "coerce" /\ config.coerce_gender = None
    THEN Some(<<"M">>) ELSE config.coerce_gender

\* the try block of score_members_aca: made is what rows_to_member_inputs
\* does with the rows fetched, scored what the score() calls of the loop do
ScoringBody(db, run_id, made, scored) ==
    IF Raised(made) THEN [result |-> made, db |-> db]
    ELSE ScoredRows(db, run_id, made.returned.members, scored)

\* score_members_aca(context, config, duckdb) from the RunRecord on
score_members_aca(db, run_id, made, scored) ==
    LET record == RunRecord(ScoringRecordKw(run_id))
        inserted == insert_run(db, record)
    IN  IF Raised(record) THEN [result |-> record, db |-> db]
        ELSE IF Raised(inserted) THEN [result |-> inserted, db |-> db]
        ELSE MarkFailed(ScoringBody(inserted, run_id, made, scored), run_id)

\* context.run_id and generate_run_id()
RunIds == {<<"RUN1", "RUN2", "RUN3">>[i] : i \in 1..MaxRuns}

\* risk_scores as test_decomposition_interaction.py fills it, in thousandths
TestScores ==
    {[run_id |-> "BASE", member_id |-> "M1", risk_score |-> 10000],
     [run_id |-> "BASE", member_id |-> "M2", risk_score |-> 20000],
     [run_id |-> "ACTUAL", member_id |-> "M1", risk_score |-> 12000],
     [run_id |-> "ACTUAL", member_id |-> "M2", risk_score |-> 22000],
     [run_id |-> "MODEL", member_id |-> "M1", risk_score |-> 11000],
     [run_id |-> "MODEL", member_id |-> "M2", risk_score |-> 21000],
     [run_id |-> "POP", member_id |-> "M1", risk_score |-> 10500],
     [run_id |-> "POP", member_id |-> "M2", risk_score |-> 20500]}

\* the same with a member missing from one run
ScoreTables ==
    {TestScores,
     TestScores \ {[run_id |-> "POP", member_id |-> "M2", risk_score |-> 20500]},
     TestScores \ {[run_id |-> "ACTUAL", member_id |-> "M1", risk_score |-> 12000]}}

\* config["scenarios"] of the test
TestScenarios ==
    <<[key |-> "baseline", value |-> "BASE"], [key |-> "actual", value |-> "ACTUAL"],
      [key |-> "model", value |-> "MODEL"], [key |-> "pop", value |-> "POP"]>>

\* analysis["components"]
ComponentLists ==
    LET model_ == [name |-> "Model Change", scenario |-> "model"]
        pop == [name |-> "Population Mix", scenario |-> "pop"]
    IN  {<<>>, <<model_, pop>>, <<pop, model_>>}

\* config["analysis"]
Analysis(baseline, method, metric, mode, components) ==
    [baseline |-> baseline, actual |-> "actual", method |-> method, metric |-> metric,
     population_mode |-> mode, components |-> components]

\* the op config of decompose_runs: the test's, and variations of it
DecompositionConfigs ==
    LET test == <<[name |-> "Model Change", scenario |-> "model"],
                  [name |-> "Population Mix", scenario |-> "pop"]>>
    IN  {[scenarios |-> TestScenarios, analysis |-> analysis] :
            analysis \in
                {Analysis("baseline", method, metric, "intersection", components) :
                    method \in {"marginal", "sequential"}, metric \in {"mean", "sum"},
                    components \in ComponentLists}
                \cup {Analysis("baseline", "marginal", "mean", mode, test) :
                    mode \in {"baseline_population", "scenario_population", "union"}}
                \cup {Analysis("base", "marginal", "mean", "intersection", test),
                      Analysis("baseline", "marginal", "mean", "intersection",
                               <<[name |-> "Gone", scenario |-> "missing"]>>)}}

\* the op config of compare_runs
ComparisonConfigs ==
    {[run_id_a |-> a, run_id_b |-> b] :
        a \in {None, Some("BASE"), Some("ACTUAL")}, b \in {None, Some("ACTUAL"), Some("POP")}}

InitRuns ==
    /\ NoMember
    /\ NoHierarchy
    /\ NoLookup
    /\ NoMapping
    /\ NoBatch
    /\ NoLoads
    /\ NoRows
    /\ NoGroups
    /\ \E t \in ScoreTables : warehouse = [EmptyWarehouse EXCEPT !.risk_scores = t]
    /\ asset_run = None

\* an asset ended: the warehouse as it left it and what it did
Materialized(asset, run_id, config, did) ==
    /\ warehouse' = did.db
    /\ asset_run' = Some([asset |-> asset, run_id |-> run_id, config |-> config,
                          result |-> did.result])
    /\ UNCHANGED <<scoreVars, hierVars, lookupVars, mapVars, batchVars, cacheVars, rowVars, groupVars>>

\* one materialization of score_members_aca, todo being the rows of the
\* input relation
ScoreMembersAca(run_id, todo, config) ==
    LET made == rows_to_member_inputs(todo, config.invalid_gender, CoerceGenderOf(config))
    IN  \E orders \in (IF Raised(made) THEN {<<>>}
                       ELSE BatchOrders(made.returned.members, None)) :
            Materialized("score_members_aca", run_id, <<config, todo>>,
                score_members_aca(warehouse, run_id, made,
                    IF Raised(made) THEN made
                    ELSE ListOfScored(ScoreEach(made.returned.members, None, orders))))

\* one materialization of compare_runs
CompareRuns(run_id, config) ==
    Materialized("compare_runs", run_id, config, compare_runs(warehouse, config, run_id))

\* one materialization of decompose_runs
DecomposeRuns(run_id, config) ==
    Materialized("decompose_runs", run_id, config, decompose_runs(warehouse, config, run_id))

NextRuns ==
    \E run_id \in RunIds :
        \/ \E todo \in CodeLists(FetchedRows, 1), config \in GenderOptions :
               ScoreMembersAca(run_id, todo, config)
        \/ \E config \in ComparisonConfigs : CompareRuns(run_id, config)
        \/ \E config \in DecompositionConfigs : DecomposeRuns(run_id, config)

SpecRuns == InitRuns /\ [][NextRuns]_vars

\* the last asset was decompose_runs with the marginal method and a config
\* that names its baseline, its actual run and the run of every component
MarginalDecomposition ==
    /\ asset_run # None
    /\ asset_run[1].asset = "decompose_runs"
    /\ asset_run[1].config.analysis.method = "marginal"
    /\ asset_run[1].config.analysis.baseline \in Keys(asset_run[1].config.scenarios)
    /\ asset_run[1].config.analysis.population_mode # "union"
    /\ \A i \in DOMAIN asset_run[1].config.analysis.components :
          asset_run[1].config.analysis.components[i].scenario
              \in Keys(asset_run[1].config.scenarios)

\* the effect of the run of scenario key against the baseline run, as the
\* config of the last asset measures it
EffectAgainstBaseline(key) ==
    LET config == asset_run[1].config
    IN  calculate_impact(warehouse, config.analysis.metric,
                         Get(config.scenarios, config.analysis.baseline),
                         Get(config.scenarios, key),
                         config.analysis.population_mode).returned

RECURSIVE SumEffects(_)
SumEffects(components) ==
    IF components = <<>> THEN 0
    ELSE EffectAgainstBaseline(Head(components).scenario) + SumEffects(Tail(components))

\* C25: decompose_runs with the marginal method writes, for its batch, one
\* decomposition_scenarios row for each component, holding the component's
\* effect against the baseline run, and a row named Interaction whose
\* impact_value is the baseline-to-actual change minus the sum of the
\* component effects.
C25_InteractionRow ==
    MarginalDecomposition =>
        LET components == asset_run[1].config.analysis.components
            written == SelectSeq(warehouse.decomposition_scenarios,
                                 LAMBDA r : r.batch_id = asset_run[1].run_id)
        IN  /\ Len(written) = Len(components) + 1
            /\ \A i \in DOMAIN components :
                  /\ written[i].driver_name = components[i].name
                  /\ written[i].impact_value = EffectAgainstBaseline(components[i].scenario)
            /\ written[Len(written)].driver_name = "Interaction"
            /\ written[Len(written)].impact_value =
                  EffectAgainstBaseline(asset_run[1].config.analysis.actual)
                      - SumEffects(components)

\* the config of the last asset passed the checks made before the RunRecord
ConfigAccepted ==
    /\ asset_run[1].asset = "compare_runs" =>
          asset_run[1].config.run_id_a # None /\ asset_run[1].config.run_id_b # None
    /\ asset_run[1].asset = "decompose_runs" =>
          /\ asset_run[1].config.analysis.baseline \in Keys(asset_run[1].config.scenarios)
          /\ \A i \in DOMAIN asset_run[1].config.analysis.components :
                asset_run[1].config.analysis.components[i].scenario
                    \in Keys(asset_run[1].config.scenarios)

\* the run ids under which result rows are stored
RunsWithResults(db) ==
    {r.run_id : r \in {q \in db.risk_scores : q.run_id \in RunIds}}
        \cup {db.decomposition_scenarios[i].batch_id : i \in DOMAIN db.decomposition_scenarios}
        \cup {db.decomposition_definitions[i].batch_id :
                 i \in DOMAIN db.decomposition_definitions}

\* C30: the result rows of a run are written under a run_registry row; when
\* an asset has ended, the row of its run says success if it returned and
\* failed if it raised; no row is left in status started; a row in status
\* success stays in status success.
C30_RunStatusRecorded ==
    [][/\ \A run_id \in RunsWithResults(warehouse') :
             \E i \in DOMAIN warehouse'.run_registry :
                 warehouse'.run_registry[i].run_id = run_id
       /\ asset_run' # None /\ ConfigAccepted' =>
             \E i \in DOMAIN warehouse'.run_registry :
                 /\ warehouse'.run_registry[i].run_id = asset_run'[1].run_id
                 /\ warehouse'.run_registry[i].status =
                        IF Raised(asset_run'[1].result) THEN "failed" ELSE "success"
       /\ \A i \in DOMAIN warehouse'.run_registry :
             warehouse'.run_registry[i].status # "started"
       /\ \A i \in DOMAIN warehouse.run_registry :
             warehouse.run_registry[i].status = "success"
                 => warehouse'.run_registry[i].status = "success"]_vars

\* every asset that passed its config checks raised TypeError and left no
\* row in run_registry
C30_NoRunRecorded ==
    /\ warehouse.run_registry = <<>>
    /\ asset_run # None /\ ConfigAccepted => asset_run[1].result = [raised |-> "TypeError"]

(***************************************************************************)
(* Hierarchy resolution leaves no dominant code with a code it supersedes. *)
(***************************************************************************)
\* result is a subset of the input set in which no dominant code of the
\* hierarchy table stands next to a code of its list
Resolved(result) ==
    /\ result \subseteq cc_set
    /\ \A i \in DOMAIN hierarchies :
          \A s \in Range(hierarchies[i].value) :
              ~(hierarchies[i].key \in result /\ s \in result)

\* C28: after hierarchy resolution, of the HCC set and of the RXC set, the
\* result is a subset of the input and holds no pair (d, s) with s in
\* hierarchy[d], for every input set, every hierarchy table and every order
\* in which the rows of the table are processed (HierarchyTables holds every
\* table in every order of its rows).
C28_NoSupersededPairSurvives ==
    /\ hcc_set # None => Resolved(hcc_set[1])
    /\ final_rxcs # None => Resolved(final_rxcs[1])

\* a chain resolved both ways: the first row removed the dominant code of
\* the second, whose superseded code stayed
C28_Witness ==
    /\ hcc_set # None /\ final_rxcs # None
    /\ Len(hierarchies) = 2
    /\ cc_set = Codes
    /\ hierarchies[1].value = <<hierarchies[2].key>>
    /\ Len(hierarchies[2].value) = 1
    /\ hierarchies[2].value[1] \in hcc_set[1]
    /\ hierarchies[2].value[1] \in final_rxcs[1]
    /\ hierarchies[1].key \in hcc_set[1]

(***************************************************************************)
(* _apply_groupings as a function of the group table and the working set.  *)
(***************************************************************************)
MaxGroups == 2

\* group variables of the rows of a table under test, by position
GroupVariables == <<<<"G", "0", "1">>, <<"G", "0", "2">>, <<"G", "0", "3">>>>

\* member HCCs as the rule text writes them
GroupCodes == {<<"0", "1", "9">>, <<"1", "2", "6">>, <<"1", "2", "7">>}

\* the condition categories _map_diagnoses_to_ccs produces for the same HCCs
WorkingCodes == {<<"1", "9">>, <<"1", "2", "6">>, <<"1", "2", "7">>}

\* "if HHS_HCCnnn = 1 then do; HHS_HCCnnn = 0; Gxx = 1; end;"
GroupRule(hcc) ==
    <<[text |-> "if "], [hcc |-> hcc], [text |-> " = 1 then do; "], [hcc |-> hcc],
      [text |-> " = 0; "], [text |-> "Gxx = 1; end;"]>>

\* one item of table_6.json: the first member in "definition", the others in
\* "continuation"
GroupItem(variable, group_hccs) ==
    [model |-> "Adult", variable |-> variable,
     definition |-> GroupRule(Head(group_hccs)),
     continuation |-> [i \in 1..(Len(group_hccs) - 1) |->
                          [definition |-> GroupRule(group_hccs[i + 1])]]]

\* the tables of n items, item i defining group variable i
RECURSIVE GroupTablesOf(_)
GroupTablesOf(n) ==
    IF n = 0 THEN {<<>>}
    ELSE {Append(t, GroupItem(GroupVariables[n], l)) :
             t \in GroupTablesOf(n - 1), l \in Lists(GroupCodes)}

GroupTables == GroupTablesOf(MaxGroups)

InitGroup ==
    /\ NoMember
    /\ NoHierarchy
    /\ NoLookup
    /\ NoMapping
    /\ NoBatch
    /\ NoLoads
    /\ NoRows
    /\ NoRuns
    /\ group_table \in GroupTables
    /\ group_in \in SUBSET WorkingCodes
    /\ grouped = None

\* calculator._apply_groupings(hccs, model), load_hcc_groups reading the table
\* under test
ApplyGroupings(model) ==
    /\ grouped = None
    /\ grouped' = Some([model |-> model,
                        result |-> IF model = "Infant"
                                   THEN [remaining_hccs |-> group_in, triggered_groups |-> {}]
                                   ELSE GroupingLoop(group_in, {},
                                                     GroupsOf(group_table, model, <<>>))])
    /\ UNCHANGED <<group_table, group_in>>
    /\ UNCHANGED <<scoreVars, hierVars, lookupVars, mapVars, batchVars, cacheVars, rowVars, runVars>>

NextGroup == \E model \in {"Adult", "Child", "Infant"} : ApplyGroupings(model)

SpecGroup == InitGroup /\ [][NextGroup]_vars

\* the groups load_hcc_groups read for the call, in dict order
LoadedGroups == GroupsOf(group_table, grouped[1].model, <<>>)

\* the working set when the j-th group is evaluated
WorkingAt(j) == GroupingLoop(group_in, {}, SubSeq(LoadedGroups, 1, j - 1)).remaining_hccs

\* group_hccs holds cc, character for character
GroupHolds(group_hccs, cc) == \E i \in DOMAIN group_hccs : group_hccs[i] = cc

\* first of two groups that share an HCC claims it, Member(group_hccs, cc)
\* saying when a working-set element is a member of a group
FirstGroupClaims(Member(_, _)) ==
    (grouped # None /\ grouped[1].model \in {"Adult", "Child"}) =>
        LET triggered == grouped[1].result.triggered_groups
        IN  \A i, j \in DOMAIN LoadedGroups, cc \in group_in :
                (/\ i < j
                 /\ Member(LoadedGroups[i].value, cc)
                 /\ Member(LoadedGroups[j].value, cc)) =>
                    /\ (\A c \in group_in \ {cc} :
                            /\ ~Member(LoadedGroups[i].value, c)
                            /\ ~Member(LoadedGroups[j].value, c)) =>
                           /\ LoadedGroups[i].key \in triggered
                           /\ LoadedGroups[j].key \notin triggered
                    /\ LoadedGroups[j].key \in triggered =>
                           \E c \in WorkingAt(j) \ {cc} : Member(LoadedGroups[j].value, c)

\* the order of evaluation alone: with membership read as equality of the
\* identifier strings, the first group in table order claims a shared HCC
FirstGroupClaimsLiteral == FirstGroupClaims(GroupHolds)

\* C26: when an HCC is a member of two groups, the group first in table order
\* claims it: if it is the only member of either group in the working set, the
\* first group is triggered and the later one is not; the later group is
\* triggered only when another of its members is still in the working set when
\* it is evaluated.
C26_FirstGroupClaims == FirstGroupClaims(GroupNamesCc)

\* HCC 19 in both groups and alone in the working set: no group is triggered
C26_SharedUntriggered ==
    /\ grouped # None /\ grouped[1].model = "Adult"
    /\ group_in = {<<"1", "9">>}
    /\ Len(LoadedGroups) = 2
    /\ \A i \in 1..2 : GroupNamesCc(LoadedGroups[i].value, <<"1", "9">>)
    /\ grouped[1].result.triggered_groups = {}

\* HCC 126 in both groups and alone in the working set: the first group only
C26_SharedClaimed ==
    /\ grouped # None /\ grouped[1].model = "Adult"
    /\ group_in = {<<"1", "2", "6">>}
    /\ Len(LoadedGroups) = 2
    /\ \A i \in 1..2 : GroupHolds(LoadedGroups[i].value, <<"1", "2", "6">>)
    /\ grouped[1].result.triggered_groups = {LoadedGroups[1].key}

(***************************************************************************)
(* The components of a ScoreOutput against its risk_score.                 *)
(***************************************************************************)
\* the components list: one demographic entry, first, whatever its
\* coefficient; every other entry an hcc, hcc_group, edf or rxc entry with a
\* non-zero coefficient
ComponentsShape(components) ==
    /\ components # <<>>
    /\ components[1].component_type = "demographic"
    /\ \A i \in 2..Len(components) :
           /\ components[i].component_type \in {"hcc", "hcc_group", "edf", "rxc"}
           /\ components[i].coefficient # 0

\* sum(c.coefficient for c in components): the floats added from 0 in list order
FloatSumOfComponents(components) == Accumulate(PositiveZero, components)

C27_LastBitWitness ==
    /\ Returned
    /\ ComponentsShape(out[1].components)
    /\ SumCoefficients(out[1].components) = out[1].risk_score
    /\ FloatSumOfComponents(out[1].components) # FloatScores(out[1].components).risk_score

(***************************************************************************)
(* The component codes of a ScoreOutput.                                   *)
(***************************************************************************)
\* C29: within one ScoreOutput no two components have the same
\* component_code: no coefficient variable is added to the score more than
\* once, even when two identifiers of one set render to the same variable
\* name (RXC "1" and "01" both giving RXC_01).
C29_NoVariableTwice ==
    Returned =>
        \A i, j \in DOMAIN out[1].components :
            i # j => out[1].components[i].component_code # out[1].components[j].component_code

\* RXC "1" and "01" both survived and RXC_01 was added twice, while
\* rxc_coefficients holds it once
C29_AddedTwice ==
    /\ Returned
    /\ out[1].details.rxcs_after_hierarchy = <<<<"0", "1">>, <<"1">>>>
    /\ Len(ComponentsOfType(out[1].components, "rxc")) = 2
    /\ Len(out[1].details.rxc_coefficients) = 1
    /\ out[1].details.rxc_score = 2 * out[1].details.rxc_coefficients[1].value

====
